---- MODULE Spec2Model ----
(***************************************************************************)
(* A model of dm.Process (src/dm/Process.py): one session object driving   *)
(* an interactive child process.  Three parties take steps: the owner      *)
(* thread (the caller of run_shell and of the commands inside its body),   *)
(* the background reader thread (read_output) and the child process.       *)
(*                                                                         *)
(* Text is a sequence of one-character strings.  Every character the child *)
(* writes carries, as history, the id of the command the child was         *)
(* answering when it wrote it (0 before it has read any command).          *)
(* Timeouts are positive, as in every caller of the class; the interpreter *)
(* is the one the sources name (Python 3.6), where a StopIteration raised  *)
(* inside a generator ends the generator.                                  *)
(***************************************************************************)
EXTENDS Integers, Sequences, FiniteSets, TLC

MaxCalls == 2
MaxOut == 2
timeout == 1
init_timeout == 2

Alphabet == {"a", "%", "\n"}
Whitespace == {" ", "\n", "\t"}
prompt == <<"%">>

VARIABLES
    arg, res,
    start_cmd, end_cmd,
    child, cur, stdin, stdout, nout,
    has_queue, queue, stream, read_running,
    rpc, output,
    pc, op, cmd, waited,
    ncmd, nbody, nenq, sent, stale, timedout, ndeq, yields, hist,
    orig, raised, sent_at_exit, ret,
    rd, enq

vars == <<arg, res, start_cmd, end_cmd, child, cur, stdin, stdout, nout,
          has_queue, queue, stream, read_running, rpc, output,
          pc, op, cmd, waited,
          ncmd, nbody, nenq, sent, stale, timedout, ndeq, yields, hist,
          orig, raised, sent_at_exit, ret, rd, enq>>

configVars == <<arg, res, start_cmd, end_cmd>>
childVars == <<child, cur, stdin, stdout, nout>>
readerVars == <<rpc, output, read_running>>

(***************************************************************************)
(* Text helpers                                                            *)
(***************************************************************************)
Text(chunk) == [i \in 1..Len(chunk) |-> chunk[i].ch]

EndsWith(s, p) ==
    /\ Len(s) >= Len(p)
    /\ SubSeq(s, Len(s) - Len(p) + 1, Len(s)) = p

Chars(s) == {s[i] : i \in 1..Len(s)}

RECURSIVE RStrip(_, _)
RStrip(s, chars) ==
    IF s # <<>> /\ s[Len(s)] \in chars
    THEN RStrip(SubSeq(s, 1, Len(s) - 1), chars)
    ELSE s

RECURSIVE LStrip(_, _)
LStrip(s, chars) ==
    IF s # <<>> /\ s[1] \in chars
    THEN LStrip(Tail(s), chars)
    ELSE s

Strip(s) == LStrip(RStrip(s, Whitespace), Whitespace)

RunResult(resp, p) == Strip(RStrip(resp, Chars(p)))

(***************************************************************************)
(* Exceptions and results                                                  *)
(***************************************************************************)
Exc(type, at) == [type |-> type, at |-> at]
NoExc == Exc("None", "none")

NoRet == [op |-> "none", cmd |-> 0, kind |-> "none", val |-> <<>>,
          chunk |-> <<>>, id |-> 0, ndeq |-> 0, waited |-> 0, kept |-> TRUE]

Result(kind, val, chunk, id, n, w, kept) ==
    [op |-> op, cmd |-> cmd, kind |-> kind, val |-> val,
     chunk |-> chunk, id |-> id, ndeq |-> n, waited |-> w, kept |-> kept]

\* the session as the constructor leaves it
Constructed ==
    /\ child = "none" /\ cur = 0 /\ stdin = <<>> /\ stdout = <<>> /\ nout = 0
    /\ has_queue = FALSE /\ queue = <<>>
    /\ stream = FALSE /\ read_running = FALSE
    /\ rpc = "none" /\ output = <<>>
    /\ pc = "new" /\ op = "none" /\ cmd = 0 /\ waited = 0
    /\ ncmd = 0 /\ nbody = 0 /\ nenq = 0 /\ sent = <<>> /\ stale = {}
    /\ timedout = {} /\ ndeq = 0 /\ yields = <<>> /\ hist = <<>>
    /\ orig = NoExc /\ raised = NoExc /\ sent_at_exit = 0 /\ ret = NoRet
    /\ rd = <<>> /\ enq = <<>>

Init ==
    /\ arg = <<>> /\ res = <<>>
    /\ start_cmd \in BOOLEAN
    /\ end_cmd \in BOOLEAN
    /\ Constructed


(***************************************************************************)
(* The child process: a prompt-driven program of any behaviour.  It reads  *)
(* the next command from its input, writes characters, and may exit, which *)
(* closes both of its pipes.                                               *)
(***************************************************************************)
ChildRead ==
    /\ child = "alive" /\ stdin # <<>>
    /\ cur' = Head(stdin)
    /\ stdin' = Tail(stdin)
    /\ UNCHANGED <<configVars, child, stdout, nout, has_queue, queue, stream,
                   readerVars, pc, op, cmd, waited, ncmd, nbody, nenq, rd, enq, sent,
                   stale, timedout, ndeq, yields, hist, orig, raised,
                   sent_at_exit, ret>>

ChildEmit ==
    /\ child = "alive" /\ nout < MaxOut
    /\ \E c \in Alphabet :
          /\ stdout' = Append(stdout, [ch |-> c, cmd |-> cur])
          /\ hist' = IF op = "stream" /\ cur = cmd THEN Append(hist, c)
                                                    ELSE hist
    /\ nout' = nout + 1
    /\ UNCHANGED <<configVars, child, cur, stdin, has_queue, queue, stream,
                   readerVars, pc, op, cmd, waited, ncmd, nbody, nenq, rd, enq, sent,
                   stale, timedout, ndeq, yields, orig, raised,
                   sent_at_exit, ret>>

ChildExit ==
    /\ child = "alive"
    /\ child' = "exited"
    /\ UNCHANGED <<configVars, cur, stdin, stdout, nout, has_queue, queue,
                   stream, readerVars, pc, op, cmd, waited, ncmd, nbody, nenq, rd, enq,
                   sent, stale, timedout, ndeq, yields, hist, orig, raised,
                   sent_at_exit, ret>>

(***************************************************************************)
(* The reader thread, read_output                                          *)
(***************************************************************************)
ownerVars == <<pc, op, cmd, waited, ncmd, nbody, sent, stale, timedout, ndeq,
               yields, hist, orig, raised, sent_at_exit, ret>>

\* read_output flushing at every newline, streaming or not
ShouldFlushAnyNewline(out) ==
    \/ EndsWith(Text(out), prompt)
    \/ EndsWith(Text(out), <<"\n">>)

ShouldFlush(out) ==
    \/ EndsWith(Text(out), prompt)
    \/ (stream /\ EndsWith(Text(out), <<"\n">>))

ReaderStart ==
    /\ rpc = "start"
    /\ read_running' = TRUE
    /\ rpc' = "read"
    /\ UNCHANGED <<configVars, childVars, has_queue, queue, stream, output,
                   nenq, rd, enq, ownerVars>>

ReaderRead ==
    /\ rpc = "read" /\ stdout # <<>>
    /\ output' = Append(output, Head(stdout))
    /\ stdout' = Tail(stdout)
    /\ rd' = Append(rd, Head(stdout))
    /\ rpc' = "check"
    /\ UNCHANGED <<configVars, child, cur, stdin, nout, has_queue, queue,
                   stream, read_running, nenq, enq, ownerVars>>

\* read_output that goes on reading when a read returns nothing
ReaderEOFIgnored ==
    /\ rpc = "read" /\ stdout = <<>> /\ child = "exited"
    /\ UNCHANGED vars

\* read_output that enqueues what it has buffered when the output is closed
ReaderEOFFlush ==
    /\ rpc = "read" /\ stdout = <<>> /\ child = "exited"
    /\ read_running' = FALSE
    /\ rpc' = "dead"
    /\ IF output = <<>>
       THEN UNCHANGED <<queue, nenq, enq, output>>
       ELSE /\ queue' = Append(queue, [text |-> output, id |-> nenq + 1])
            /\ nenq' = nenq + 1
            /\ enq' = Append(enq, output)
            /\ output' = <<>>
    /\ UNCHANGED <<configVars, childVars, has_queue, stream, rd, ownerVars>>

\* lines 132-136: read(1) returned nothing, the thread returns; its buffer is
\* a local of read_output and ends with it
ReaderEOF ==
    /\ rpc = "read" /\ stdout = <<>> /\ child = "exited"
    /\ read_running' = FALSE
    /\ rpc' = "dead"
    /\ UNCHANGED <<configVars, childVars, has_queue, queue, stream, output,
                   nenq, rd, enq, ownerVars>>

\* line 140: the buffer is tested after every character; self.stream is read
\* here, and the owner may change it before the put that follows
ReaderCheck ==
    /\ rpc = "check"
    /\ rpc' = IF ShouldFlush(output) THEN "put" ELSE "read"
    /\ UNCHANGED <<configVars, childVars, has_queue, queue, stream,
                   read_running, output, nenq, rd, enq, ownerVars>>

\* read_output that does not reset its buffer after the put
ReaderPutNoReset ==
    /\ rpc = "put"
    /\ queue' = Append(queue, [text |-> output, id |-> nenq + 1])
    /\ nenq' = nenq + 1
    /\ enq' = Append(enq, output)
    /\ rpc' = "read"
    /\ UNCHANGED <<configVars, childVars, has_queue, stream, read_running,
                   output, rd, ownerVars>>

\* lines 141-142: the buffer is enqueued and reset
ReaderPut ==
    /\ rpc = "put"
    /\ queue' = Append(queue, [text |-> output, id |-> nenq + 1])
    /\ nenq' = nenq + 1
    /\ enq' = Append(enq, output)
    /\ output' = <<>>
    /\ rpc' = "read"
    /\ UNCHANGED <<configVars, childVars, has_queue, stream, read_running,
                   rd, ownerVars>>

(***************************************************************************)
(* The owner thread: run_shell's start-up                                  *)
(***************************************************************************)
QueueIds == {queue[i].id : i \in 1..Len(queue)}

\* send_command is entered: the chunks queued at this moment are the stale ones
BeginSend(o) ==
    /\ op' = o
    /\ cmd' = ncmd + 1
    /\ ncmd' = ncmd + 1
    /\ pc' = "purge"
    /\ stale' = stale \cup QueueIds
    /\ ndeq' = 0
    /\ waited' = 0
    /\ hist' = <<>>
    /\ ret' = NoRet

\* the history kept of the body's calls ends with the body
LeaveBody ==
    /\ pc' = "cleanup"
    /\ sent_at_exit' = Len(sent)
    /\ ret' = NoRet
    /\ yields' = <<>> /\ hist' = <<>>
    /\ stale' = {} /\ timedout' = {}
    /\ ndeq' = 0 /\ waited' = 0 /\ nbody' = 0

\* an exception leaves a call of the body: the body handles it and goes on, or
\* it leaves the scope
RaiseInBody(e, r, td) ==
    \/ /\ pc' = "idle"
       /\ ret' = r
       /\ timedout' = td
       /\ UNCHANGED <<orig, sent_at_exit, yields, hist, stale, ndeq, waited,
                      nbody>>
    \/ /\ orig' = e
       /\ LeaveBody

Spawn ==
    /\ pc = "new"
    /\ \/ /\ child' = "alive"
          /\ pc' = "spawned"
          /\ orig' = orig
       \/ /\ child' = child
          /\ pc' = "cleanup"
          /\ orig' = Exc("OSError", "startup")
    /\ UNCHANGED <<configVars, cur, stdin, stdout, nout, has_queue, queue,
                   stream, readerVars, op, cmd, waited, ncmd, nbody, nenq, rd, enq,
                   sent, stale, timedout, ndeq, yields, hist, raised,
                   sent_at_exit, ret>>

StartThread ==
    /\ pc = "spawned"
    /\ has_queue' = TRUE
    /\ queue' = <<>>
    /\ \/ /\ rpc' = "start"
          /\ orig' = orig
          /\ IF start_cmd
             THEN BeginSend("start")
             ELSE /\ pc' = "idle"
                  /\ UNCHANGED <<op, cmd, ncmd, stale, ndeq, waited, hist,
                                 ret>>
       \/ /\ rpc' = rpc
          /\ orig' = Exc("RuntimeError", "startup")
          /\ pc' = "cleanup"
          /\ UNCHANGED <<op, cmd, ncmd, stale, ndeq, waited, hist, ret>>
    /\ UNCHANGED <<configVars, childVars, stream, output, read_running, nbody,
                   nenq, rd, enq, sent, timedout, yields, raised, sent_at_exit>>

(***************************************************************************)
(* Calls made by the body of the scope                                     *)
(***************************************************************************)
CallSend ==
    /\ pc = "idle" /\ nbody < MaxCalls
    /\ BeginSend("send")
    /\ nbody' = nbody + 1
    /\ UNCHANGED <<configVars, childVars, has_queue, queue, stream, readerVars,
                   nenq, rd, enq, sent, timedout, yields, orig, raised, sent_at_exit>>

CallRun ==
    /\ pc = "idle" /\ nbody < MaxCalls
    /\ BeginSend("run")
    /\ nbody' = nbody + 1
    /\ UNCHANGED <<configVars, childVars, has_queue, queue, stream, readerVars,
                   nenq, rd, enq, sent, timedout, yields, orig, raised, sent_at_exit>>

CallStream ==
    /\ pc = "idle" /\ nbody < MaxCalls
    /\ stream' = TRUE
    /\ BeginSend("stream")
    /\ nbody' = nbody + 1
    /\ yields' = <<>>
    /\ UNCHANGED <<configVars, childVars, has_queue, queue, readerVars, nenq, rd, enq,
                   sent, timedout, orig, raised, sent_at_exit>>

CallGet ==
    /\ pc = "idle" /\ nbody < MaxCalls
    /\ op' = "get"
    /\ pc' = "wait"
    /\ ndeq' = 0 /\ waited' = 0 /\ hist' = <<>> /\ ret' = NoRet
    /\ nbody' = nbody + 1
    /\ UNCHANGED <<configVars, childVars, has_queue, queue, stream, readerVars,
                   cmd, ncmd, nenq, rd, enq, sent, stale, timedout, yields, orig,
                   raised, sent_at_exit>>

CallWaitReady ==
    /\ pc = "idle" /\ nbody < MaxCalls
    /\ op' = "wait_ready"
    /\ pc' = "wait"
    /\ ndeq' = 0 /\ waited' = 0 /\ hist' = <<>> /\ ret' = NoRet
    /\ nbody' = nbody + 1
    /\ UNCHANGED <<configVars, childVars, has_queue, queue, stream, readerVars,
                   cmd, ncmd, nenq, rd, enq, sent, stale, timedout, yields, orig,
                   raised, sent_at_exit>>

\* process_up: send_command(""), then get_response()
CallProcessUp ==
    /\ pc = "idle" /\ nbody < MaxCalls
    /\ BeginSend("up")
    /\ nbody' = nbody + 1
    /\ UNCHANGED <<configVars, childVars, has_queue, queue, stream, readerVars,
                   nenq, rd, enq, sent, timedout, yields, orig, raised, sent_at_exit>>

\* the same calls in dry-run mode (test_mode=True)
TestOps == {"send_test", "run_test", "stream_test"}

CallSendTest ==
    /\ pc = "idle" /\ nbody < MaxCalls
    /\ BeginSend("send_test")
    /\ nbody' = nbody + 1
    /\ UNCHANGED <<configVars, childVars, has_queue, queue, stream, readerVars,
                   nenq, rd, enq, sent, timedout, yields, orig, raised, sent_at_exit>>

CallRunTest ==
    /\ pc = "idle" /\ nbody < MaxCalls
    /\ BeginSend("run_test")
    /\ nbody' = nbody + 1
    /\ UNCHANGED <<configVars, childVars, has_queue, queue, stream, readerVars,
                   nenq, rd, enq, sent, timedout, yields, orig, raised, sent_at_exit>>

CallStreamTest ==
    /\ pc = "idle" /\ nbody < MaxCalls
    /\ stream' = TRUE
    /\ BeginSend("stream_test")
    /\ nbody' = nbody + 1
    /\ yields' = <<>>
    /\ UNCHANGED <<configVars, childVars, has_queue, queue, readerVars, nenq, rd, enq,
                   sent, timedout, orig, raised, sent_at_exit>>

(***************************************************************************)
(* send_command: the purge loop, then the write                            *)
(***************************************************************************)
PurgeOne ==
    /\ pc = "purge" /\ queue # <<>>
    /\ queue' = Tail(queue)
    /\ UNCHANGED <<configVars, childVars, has_queue, stream, readerVars, pc,
                   op, cmd, waited, ncmd, nbody, nenq, rd, enq, sent, stale, timedout,
                   ndeq, yields, hist, orig, raised, sent_at_exit, ret>>

\* send_command without its purge loop
PurgeDoneNoDrain ==
    /\ pc = "purge"
    /\ pc' = "write"
    /\ UNCHANGED <<configVars, childVars, has_queue, queue, stream, readerVars,
                   op, cmd, waited, ncmd, nbody, nenq, rd, enq, sent, stale, timedout,
                   ndeq, yields, hist, orig, raised, sent_at_exit, ret>>

PurgeDone ==
    /\ pc = "purge" /\ queue = <<>>
    /\ pc' = "write"
    /\ UNCHANGED <<configVars, childVars, has_queue, queue, stream, readerVars,
                   op, cmd, waited, ncmd, nbody, nenq, rd, enq, sent, stale, timedout,
                   ndeq, yields, hist, orig, raised, sent_at_exit, ret>>

\* dry-run mode that writes the command all the same
DryRunWrites ==
    /\ pc = "write" /\ op \in TestOps
    /\ stdin' = Append(stdin, cmd)
    /\ sent' = Append(sent, [id |-> cmd, kind |-> op])
    /\ pc' = "idle"
    /\ ret' = Result("sent", <<>>, <<>>, 0, 0, 0, TRUE)
    /\ UNCHANGED <<configVars, child, cur, stdout, nout, has_queue, queue,
                   stream, readerVars, op, cmd, waited, ncmd, nbody, nenq, rd, enq,
                   stale, timedout, ndeq, yields, hist, orig, raised,
                   sent_at_exit>>

\* dry-run mode: send_command only logs the command; get_response returns ""
\* at once, which run_command strips; stream_command raises StopIteration
\* before its loop, with self.stream left set
DryRunReturn ==
    /\ pc = "write" /\ op \in TestOps
    /\ pc' = "idle"
    /\ ret' = CASE op = "send_test" ->
                     Result("sent", <<>>, <<>>, 0, 0, 0, TRUE)
                [] op = "run_test" ->
                     Result("value", RunResult(<<>>, prompt), <<>>, 0, 0, 0,
                            TRUE)
                [] op = "stream_test" ->
                     Result("done", <<>>, <<>>, 0, 0, 0, TRUE)
    /\ UNCHANGED <<configVars, childVars, has_queue, queue, stream, readerVars,
                   op, cmd, waited, ncmd, nbody, nenq, rd, enq, sent, stale, timedout,
                   ndeq, yields, hist, orig, raised, sent_at_exit>>

WriteOk ==
    /\ pc = "write" /\ child = "alive" /\ op \notin TestOps
    /\ stdin' = Append(stdin, cmd)
    /\ sent' = Append(sent, [id |-> cmd, kind |-> op])
    /\ waited' = 0
    /\ CASE op \in {"run", "stream", "up"} ->
              /\ pc' = "wait"
              /\ UNCHANGED <<ret, raised>>
         [] op = "send" ->
              /\ pc' = "idle"
              /\ ret' = Result("sent", <<>>, <<>>, 0, 0, 0, TRUE)
              /\ raised' = raised
         [] op = "start" ->
              /\ pc' = "idle"
              /\ UNCHANGED <<ret, raised>>
         [] op = "end" ->
              /\ pc' = "done"
              /\ raised' = orig
              /\ ret' = ret
    /\ UNCHANGED <<configVars, child, cur, stdout, nout, has_queue, queue,
                   stream, readerVars, op, cmd, ncmd, nbody, nenq, rd, enq, stale,
                   timedout, ndeq, yields, hist, orig, sent_at_exit>>

WriteBrokenPipe ==
    /\ pc = "write" /\ child # "alive" /\ op \notin TestOps
    /\ CASE op \in {"run", "stream", "send", "up"} ->
              /\ RaiseInBody(Exc("BrokenPipeError", op),
                             Result("error", <<>>, <<>>, 0, 0, 0, TRUE),
                             timedout)
              /\ raised' = raised
         [] op = "start" ->
              /\ pc' = "cleanup"
              /\ orig' = Exc("BrokenPipeError", "startup")
              /\ UNCHANGED <<ret, raised, sent_at_exit, yields, hist, stale,
                             timedout, ndeq, waited, nbody>>
         [] op = "end" ->
              /\ pc' = "done"
              /\ raised' = Exc("BrokenPipeError", "cleanup")
              /\ UNCHANGED <<ret, orig, sent_at_exit, yields, hist, stale,
                             timedout, ndeq, waited, nbody>>
    /\ UNCHANGED <<configVars, childVars, has_queue, queue, stream, readerVars,
                   op, cmd, ncmd, nenq, rd, enq, sent>>

(***************************************************************************)
(* get_response / get_response_no_timeout: the blocking wait on the queue  *)
(***************************************************************************)
\* get_response ignoring the timeout it is given
GetTimeoutDefault(t) == timeout

\* get_response's "if not timeout: timeout = self.timeout"
GetTimeout(t) == IF t = 0 THEN timeout ELSE t

\* the timeout of the wait of the call in progress (stream's wait has none)
Limit == IF op = "wait_ready" THEN GetTimeout(init_timeout) ELSE GetTimeout(0)

\* run_command waiting with get_response_no_timeout
TimedNotRun == op \in {"get", "wait_ready"}

\* stream_command waiting with get_response
TimedAlsoStream == op \in {"run", "get", "wait_ready", "stream"}

\* which calls wait with get_response, and so with a timeout
Timed == op \in {"run", "get", "wait_ready", "up"}

\* time passes while the owner is blocked on the empty queue
Tick ==
    /\ pc = "wait" /\ queue = <<>>
    /\ IF Timed THEN waited + 1 < Limit ELSE waited < timeout
    /\ waited' = waited + 1
    /\ UNCHANGED <<configVars, childVars, has_queue, queue, stream, readerVars,
                   pc, op, cmd, ncmd, nbody, nenq, rd, enq, sent, stale, timedout,
                   ndeq, yields, hist, orig, raised, sent_at_exit, ret>>

\* get_response stripping the chunk as run_command does
DequeueStripped ==
    /\ pc = "wait" /\ queue # <<>>
    /\ LET resp == Head(queue) IN
       /\ queue' = Tail(queue)
       /\ ndeq' = ndeq + 1
       /\ ret' = Result("value", RunResult(Text(resp.text), prompt),
                        resp.text, resp.id, ndeq + 1, waited, TRUE)
       /\ pc' = "idle"
    /\ UNCHANGED <<configVars, childVars, has_queue, stream, readerVars, op,
                   cmd, waited, ncmd, nbody, nenq, rd, enq, sent, stale,
                   timedout, yields, hist, orig, raised, sent_at_exit>>

Dequeue ==
    /\ pc = "wait" /\ queue # <<>>
    /\ LET resp == Head(queue) IN
       /\ queue' = Tail(queue)
       /\ ndeq' = ndeq + 1
       /\ CASE op = "run" ->
                 /\ ret' = Result("value", RunResult(Text(resp.text), prompt),
                                  resp.text, resp.id, ndeq + 1, waited, TRUE)
                 /\ pc' = "idle"
                 /\ yields' = yields
            [] op = "get" ->
                 /\ ret' = Result("value", Text(resp.text),
                                  resp.text, resp.id, ndeq + 1, waited, TRUE)
                 /\ pc' = "idle"
                 /\ yields' = yields
            [] op \in {"wait_ready", "up"} ->
                 /\ ret' = Result("true", <<>>,
                                  resp.text, resp.id, ndeq + 1, waited, TRUE)
                 /\ pc' = "idle"
                 /\ yields' = yields
            [] op = "stream" ->
                 /\ ret' = Result("yield", Text(resp.text),
                                  resp.text, resp.id, ndeq + 1, waited, TRUE)
                 /\ pc' = "yielded"
                 /\ yields' = Append(yields, Text(resp.text))
    /\ UNCHANGED <<configVars, childVars, has_queue, stream, readerVars, op,
                   cmd, waited, ncmd, nbody, nenq, rd, enq, sent, stale, timedout, hist,
                   orig, raised, sent_at_exit>>

\* queue.get raises queue.Empty: the timeout elapses with the queue empty
Expire ==
    /\ pc = "wait" /\ queue = <<>>
    /\ Timed /\ op # "wait_ready"
    /\ waited + 1 = Limit
    /\ RaiseInBody(Exc("Empty", op),
                   Result("timeout", <<>>, <<>>, 0, ndeq, waited + 1, TRUE),
                   IF op = "run" THEN timedout \cup {cmd} ELSE timedout)
    /\ UNCHANGED <<configVars, childVars, has_queue, queue, stream, readerVars,
                   op, cmd, ncmd, nenq, rd, enq, sent, raised>>

\* wait_for_shell returning True from its except branch
WaitExpireTrue ==
    /\ pc = "wait" /\ queue = <<>>
    /\ op = "wait_ready"
    /\ waited + 1 = Limit
    /\ pc' = "idle"
    /\ ret' = Result("true", <<>>, <<>>, 0, ndeq, waited + 1, TRUE)
    /\ UNCHANGED <<configVars, childVars, has_queue, queue, stream, readerVars,
                   op, cmd, waited, ncmd, nbody, nenq, rd, enq, sent, stale, timedout,
                   ndeq, yields, hist, orig, raised, sent_at_exit>>

\* wait_for_shell catches queue.Empty and returns False
WaitExpire ==
    /\ pc = "wait" /\ queue = <<>>
    /\ op = "wait_ready"
    /\ waited + 1 = Limit
    /\ pc' = "idle"
    /\ UNCHANGED <<child, rpc, read_running, queue>>
    /\ ret' = Result("false", <<>>, <<>>, 0, ndeq, waited + 1,
                     <<child', rpc', read_running', queue'>>
                         = <<child, rpc, read_running, queue>>)
    /\ UNCHANGED <<configVars, cur, stdin, stdout, nout, has_queue, stream,
                   output, op, cmd, waited, ncmd, nbody, nenq, rd, enq, sent, stale,
                   timedout, ndeq, yields, hist, orig, raised, sent_at_exit>>

(***************************************************************************)
(* stream_command: the generator is resumed after a yield                  *)
(***************************************************************************)
StreamNext ==
    /\ pc = "yielded"
    /\ IF EndsWith(yields[Len(yields)], prompt)
       THEN /\ stream' = FALSE
            /\ pc' = "idle"
            /\ ret' = Result("done", <<>>, <<>>, 0, ndeq, waited, TRUE)
            /\ waited' = waited
       ELSE /\ pc' = "wait"
            /\ waited' = 0
            /\ UNCHANGED <<stream, ret>>
    /\ UNCHANGED <<configVars, childVars, has_queue, queue, readerVars, op,
                   cmd, ncmd, nbody, nenq, rd, enq, sent, stale, timedout, ndeq, yields,
                   hist, orig, raised, sent_at_exit>>

(***************************************************************************)
(* run_shell: leaving the scope                                            *)
(***************************************************************************)
BodyFail ==
    /\ pc \in {"idle", "yielded"}
    /\ orig' = Exc("BodyError", "body")
    /\ LeaveBody
    /\ UNCHANGED <<configVars, childVars, has_queue, queue, stream, readerVars,
                   op, cmd, ncmd, nenq, rd, enq, sent, raised>>

BodyExit ==
    /\ pc = "idle"
    /\ orig' = orig
    /\ LeaveBody
    /\ UNCHANGED <<configVars, childVars, has_queue, queue, stream, readerVars,
                   op, cmd, ncmd, nenq, rd, enq, sent, raised>>

\* run_shell with no except: branch, the end command sent on success only
CleanupOnSuccessOnly ==
    /\ pc = "cleanup"
    /\ IF end_cmd /\ orig = NoExc
       THEN /\ BeginSend("end")
            /\ raised' = raised
       ELSE /\ pc' = "done"
            /\ raised' = orig
            /\ UNCHANGED <<op, cmd, ncmd, stale, ndeq, waited, hist, ret>>
    /\ UNCHANGED <<configVars, childVars, has_queue, queue, stream, readerVars,
                   nbody, nenq, rd, enq, sent, timedout, yields, orig, sent_at_exit>>

\* the except: and else: branches: send the end command if one is configured
Cleanup ==
    /\ pc = "cleanup"
    /\ IF end_cmd
       THEN IF has_queue
            THEN /\ BeginSend("end")
                 /\ raised' = raised
            ELSE /\ pc' = "done"
                 /\ raised' = Exc("AttributeError", "cleanup")
                 /\ UNCHANGED <<op, cmd, ncmd, stale, ndeq, waited, hist, ret>>
       ELSE /\ pc' = "done"
            /\ raised' = orig
            /\ UNCHANGED <<op, cmd, ncmd, stale, ndeq, waited, hist, ret>>
    /\ UNCHANGED <<configVars, childVars, has_queue, queue, stream, readerVars,
                   nbody, nenq, rd, enq, sent, timedout, yields, orig, sent_at_exit>>

Next ==
    \/ ChildRead \/ ChildEmit \/ ChildExit
    \/ ReaderStart \/ ReaderRead \/ ReaderEOF \/ ReaderCheck \/ ReaderPut
    \/ Spawn \/ StartThread
    \/ CallSend \/ CallRun \/ CallStream \/ CallGet \/ CallWaitReady
    \/ CallSendTest \/ CallRunTest \/ CallStreamTest \/ DryRunReturn
    \/ PurgeOne \/ PurgeDone \/ WriteOk \/ WriteBrokenPipe
    \/ Tick \/ Dequeue \/ Expire \/ WaitExpire \/ StreamNext
    \/ BodyFail \/ BodyExit \/ Cleanup

Spec == Init /\ [][Next]_vars

(***************************************************************************)
(* Fair scheduling: every thread that can take a step eventually takes     *)
(* one, time passes, and the child, whatever it does, eventually ends.     *)
(***************************************************************************)
Owner ==
    \/ Spawn \/ StartThread
    \/ CallSend \/ CallRun \/ CallStream \/ CallGet \/ CallWaitReady
    \/ CallSendTest \/ CallRunTest \/ CallStreamTest \/ DryRunReturn
    \/ PurgeOne \/ PurgeDone \/ WriteOk \/ WriteBrokenPipe
    \/ Tick \/ Dequeue \/ Expire \/ WaitExpire \/ StreamNext
    \/ BodyFail \/ BodyExit \/ Cleanup

Reader == ReaderStart \/ ReaderRead \/ ReaderEOF \/ ReaderCheck \/ ReaderPut

Child == ChildRead \/ ChildEmit \/ ChildExit

FairSpec == Spec /\ WF_vars(Owner) /\ WF_vars(Reader) /\ WF_vars(Child)

(***************************************************************************)
(* run_command's return value as a function of the chunk and the prompt:   *)
(* the chunks are those the reader enqueues outside streaming, a body that *)
(* does not contain the prompt followed by the prompt.                     *)
(***************************************************************************)
MaxBody == 3

StripAlphabet == {"a", "%", " ", "\n"}

Prompts == {<<"%">>, <<"%", " ">>}

Texts(n) == UNION {[1..k -> StripAlphabet] : k \in 0..n}

\* the chunk with one trailing occurrence of the prompt removed
DropSuffix(s, p) == IF EndsWith(s, p) THEN SubSeq(s, 1, Len(s) - Len(p)) ELSE s

StripInputs ==
    {[chunk |-> b \o p, prompt |-> p] : <<b, p>> \in
        {x \in Texts(MaxBody) \X Prompts :
            \A k \in 1..(Len(x[1]) + Len(x[2]) - 1) :
                ~EndsWith(SubSeq(x[1] \o x[2], 1, k), x[2])}}

StripInit ==
    /\ arg \in StripInputs
    /\ res = [done |-> FALSE, val |-> <<>>]
    /\ start_cmd = FALSE /\ end_cmd = FALSE
    /\ Constructed

\* run_command's last line, applied to the chunk get_response returned
RunCommandReturn ==
    /\ ~res.done
    /\ res' = [done |-> TRUE, val |-> RunResult(arg.chunk, arg.prompt)]
    /\ UNCHANGED <<arg, start_cmd, end_cmd, childVars, has_queue, queue, stream,
                   readerVars, nenq, rd, enq, ownerVars>>

StripNext == RunCommandReturn

StripSpec == StripInit /\ [][StripNext]_vars

(***************************************************************************)
(* A session in its body, with output of the child waiting in the pipe:    *)
(* the child has written up to MaxPipe characters (a banner, a prompt and  *)
(* what follows it) that the reader has yet to read, and answers the       *)
(* commands that the body sends while the body reads responses.            *)
(***************************************************************************)
MaxPipe == 2

PipeTexts == UNION {[1..n -> Alphabet] : n \in 0..MaxPipe}

Running(pending) ==
    /\ child = "alive" /\ cur = 0 /\ stdin = <<>>
    /\ stdout = [i \in 1..Len(pending) |-> [ch |-> pending[i], cmd |-> 0]]
    /\ nout = 0
    /\ has_queue = TRUE /\ queue = <<>>
    /\ stream = FALSE /\ read_running = TRUE
    /\ rpc = "read" /\ output = <<>>
    /\ pc = "idle" /\ op = "none" /\ cmd = 0 /\ waited = 0
    /\ ncmd = 0 /\ nbody = 0 /\ nenq = 0 /\ sent = <<>> /\ stale = {}
    /\ timedout = {} /\ ndeq = 0 /\ yields = <<>> /\ hist = <<>>
    /\ orig = NoExc /\ raised = NoExc /\ sent_at_exit = 0 /\ ret = NoRet
    /\ rd = <<>> /\ enq = <<>>

PipeInit ==
    /\ arg = <<>> /\ res = <<>>
    /\ start_cmd = FALSE /\ end_cmd = FALSE
    /\ \E t \in PipeTexts : Running(t)

PipeNext ==
    \/ ChildRead \/ ChildEmit
    \/ ReaderRead \/ ReaderCheck \/ ReaderPut
    \/ CallSend \/ CallRun \/ CallGet
    \/ PurgeOne \/ PurgeDone \/ WriteOk
    \/ Dequeue \/ Expire
    \/ BodyFail \/ BodyExit \/ Cleanup

PipeSpec == PipeInit /\ [][PipeNext]_vars

(***************************************************************************)
(* A session in its body with an end command configured, up to the end of  *)
(* the scope and of the reader thread.  The body leaves the scope,         *)
(* normally or with an exception; the end command is written               *)
(* to the child, which exits at a moment of its own choice.  Every thread  *)
(* that can take a step eventually takes one.                              *)
(***************************************************************************)
ShutdownInit ==
    /\ arg = <<>> /\ res = <<>>
    /\ start_cmd = FALSE /\ end_cmd = TRUE
    /\ \E t \in PipeTexts : Running(t)

ShutdownOwner ==
    \/ PurgeOne \/ PurgeDone \/ WriteOk \/ WriteBrokenPipe
    \/ BodyFail \/ BodyExit \/ Cleanup

ShutdownReader == ReaderRead \/ ReaderEOF \/ ReaderCheck \/ ReaderPut

ShutdownNext == ShutdownOwner \/ ShutdownReader \/ Child

ShutdownSpec ==
    /\ ShutdownInit /\ [][ShutdownNext]_vars
    /\ WF_vars(ShutdownOwner) /\ WF_vars(ShutdownReader) /\ WF_vars(Child)

(***************************************************************************)
(* A session in its body whose owner asks whether the child is up:         *)
(* process_up sends an empty command and waits for a chunk with the        *)
(* per-command timeout.  The child stays alive and answers or not.         *)
(***************************************************************************)
UpInit ==
    /\ arg = <<>> /\ res = <<>>
    /\ start_cmd = FALSE /\ end_cmd = FALSE
    /\ \E t \in PipeTexts : Running(t)

UpNext ==
    \/ ChildRead \/ ChildEmit
    \/ ReaderRead \/ ReaderCheck \/ ReaderPut
    \/ CallProcessUp
    \/ PurgeOne \/ PurgeDone \/ WriteOk
    \/ Dequeue \/ Expire
    \/ BodyFail \/ BodyExit \/ Cleanup

UpSpec == UpInit /\ [][UpNext]_vars

(***************************************************************************)
(* The response decoder of Dsync_parse.  A text is a sequence of pieces:   *)
(* a piece is one character, or one of the reserved words that the decoder *)
(* compares a key with, written as a single piece.  A decoded value is a   *)
(* str, a dict or a list; an exception that leaves the decoder is a value  *)
(* of its own.                                                             *)
(***************************************************************************)
MaxText == 4
MaxGroup == 3
MaxPairs == 2
MaxInner == 2

Reserved == {"comment", "mtime", "date", "objects", "tag_properties"}
Letters == {"x", "y"}
DecodeAlphabet ==
    Letters \cup {"date", "objects", "tag_properties"} \cup {" ", "\n", "{", "}"}

Str(s) == [t |-> "str", v |-> s]
List(items) == [t |-> "list", v |-> items]
Dict(f) == [t |-> "dict", v |-> f]
TypeError == [t |-> "error", v |-> <<"TypeError">>]
EmptyDict == Dict([k \in {} |-> Str(<<>>)])

\* response[a:b], indices counted from 0
Slice(s, a, b) == SubSeq(s, a + 1, b)

\* str.split(): the maximal runs of pieces that are not whitespace
RECURSIVE Split(_)
Split(s) ==
    LET w == LStrip(s, Whitespace) IN
    IF w = <<>> THEN <<>>
    ELSE LET n == CHOOSE k \in 1..Len(w) :
                     /\ \A i \in 1..k : w[i] \notin Whitespace
                     /\ k = Len(w) \/ w[k + 1] \in Whitespace
         IN <<SubSeq(w, 1, n)>> \o Split(SubSeq(w, n + 1, Len(w)))

\* _add_to_kv_list: the list extended with the words, and the returned flag
add_to_kv_list(kv_list, string) ==
    LET items == Split(string) IN
    [kv_list |-> kv_list \o [i \in 1..Len(items) |-> Str(items[i])],
     found |-> items # <<>>]

Max(S) == CHOOSE m \in S : \A n \in S : n <= m

\* zip pairing the values with the keys
kv_list_to_dictValueKeys(kv_list) ==
    LET n == Len(kv_list) \div 2 IN
    IF \E i \in 1..n : kv_list[2 * i].t # "str"
    THEN TypeError
    ELSE Dict([k \in {kv_list[2 * i].v : i \in 1..n} |->
                 kv_list[2 * Max({i \in 1..n : kv_list[2 * i].v = k}) - 1]])

\* _kv_list_to_dict: dict(zip(kv_list[0::2], kv_list[1::2])); a later pair
\* replaces an earlier one with the same key, an unpaired last item is left
\* out, and a key that is a dict or a list raises TypeError (unhashable)
kv_list_to_dict(kv_list) ==
    LET n == Len(kv_list) \div 2 IN
    IF \E i \in 1..n : kv_list[2 * i - 1].t # "str"
    THEN TypeError
    ELSE Dict([k \in {kv_list[2 * i - 1].v : i \in 1..n} |->
                 kv_list[2 * Max({i \in 1..n : kv_list[2 * i - 1].v = k})]])

\* the loop of parse_list_of_list_response from index cur_idx on
RECURSIVE ListOfListScan(_, _, _)
ListOfListScan(response, cur_idx, st) ==
    IF cur_idx = Len(response) THEN st
    ELSE LET char == response[cur_idx + 1] IN
         ListOfListScan(response, cur_idx + 1,
            IF char = "{"
            THEN [st EXCEPT !.brace_level = @ + 1,
                            !.start_idx = IF st.brace_level = 0
                                          THEN cur_idx + 1 ELSE @]
            ELSE IF char = "}"
            THEN [st EXCEPT !.brace_level = @ - 1,
                            !.item_list =
                               IF st.brace_level - 1 = 0
                               THEN Append(@, List(add_to_kv_list(<<>>,
                                       Slice(response, st.start_idx,
                                             cur_idx)).kv_list))
                               ELSE @]
            ELSE st)

parse_list_of_list_response(response) ==
    List(ListOfListScan(response, 0,
            [brace_level |-> 0, item_list |-> <<>>, start_idx |-> 0,
             raised |-> FALSE]).item_list)

RECURSIVE parse_kv_response(_)
RECURSIVE Accumulator(_)

\* the loop of parse_list_kv_response from index cur_idx on
RECURSIVE ListKvScan(_, _, _)
ListKvScan(response, cur_idx, st) ==
    IF cur_idx = Len(response) THEN st
    ELSE LET char == response[cur_idx + 1] IN
         ListKvScan(response, cur_idx + 1,
            IF char = "{"
            THEN [st EXCEPT !.brace_level = @ + 1,
                            !.start_idx = IF st.brace_level = 0
                                          THEN cur_idx + 1 ELSE @]
            ELSE IF char = "}"
            THEN IF st.brace_level - 1 = 0
                 THEN LET item == parse_kv_response(
                                     Slice(response, st.start_idx,
                                           cur_idx + 1))
                      IN [st EXCEPT !.brace_level = 0,
                                    !.item_list = Append(@, item),
                                    !.raised = @ \/ item.t = "error"]
                 ELSE [st EXCEPT !.brace_level = @ - 1]
            ELSE st)

parse_list_kv_response(response) ==
    LET st == ListKvScan(response, 0,
                 [brace_level |-> 0, item_list |-> <<>>, start_idx |-> 0,
                  raised |-> FALSE])
    IN IF st.raised THEN TypeError ELSE List(st.item_list)

parse_value_response(kv_list, value) ==
    LET key == IF kv_list = <<>> THEN Str(<<>>) ELSE kv_list[Len(kv_list)]
    IN IF key.t = "str" /\ key.v \in {<<"comment">>, <<"mtime">>, <<"date">>}
       THEN Str(value)
       ELSE IF key.t = "str" /\ key.v = <<"objects">>
       THEN parse_list_kv_response(value)
       ELSE IF key.t = "str" /\ key.v = <<"tag_properties">>
       THEN parse_list_of_list_response(value)
       ELSE parse_kv_response(value)

\* a closing brace ending the group whatever the depth
KvStepFirstBrace(response, cur_idx, st) ==
    LET char == response[cur_idx + 1] IN
    IF char = "{"
    THEN IF st.brace_level = 0
         THEN LET a == add_to_kv_list(st.kv_list,
                          Slice(response, st.start_idx, cur_idx))
              IN [st EXCEPT !.kv_list = a.kv_list,
                            !.found_key = @ \/ a.found,
                            !.start_idx = cur_idx + 1,
                            !.brace_level = 1]
         ELSE [st EXCEPT !.brace_level = @ + 1]
    ELSE IF char = "}"
    THEN LET value == parse_value_response(st.kv_list,
                         Slice(response, st.start_idx, cur_idx))
         IN [st EXCEPT !.brace_level = 0,
                       !.kv_list = Append(@, value),
                       !.raised = @ \/ value.t = "error",
                       !.start_idx = cur_idx + 1]
    ELSE IF char = "\n"
    THEN [st EXCEPT !.end_idx = cur_idx]
    ELSE st

\* one iteration of the loop of parse_kv_response, at index cur_idx
KvStep(response, cur_idx, st) ==
    LET char == response[cur_idx + 1] IN
    IF char = "{"
    THEN IF st.brace_level = 0
         THEN LET a == add_to_kv_list(st.kv_list,
                          Slice(response, st.start_idx, cur_idx))
              IN [st EXCEPT !.kv_list = a.kv_list,
                            !.found_key = @ \/ a.found,
                            !.start_idx = cur_idx + 1,
                            !.brace_level = 1]
         ELSE [st EXCEPT !.brace_level = @ + 1]
    ELSE IF char = "}"
    THEN IF st.brace_level - 1 = 0
         THEN LET value == parse_value_response(st.kv_list,
                              Slice(response, st.start_idx, cur_idx))
              IN [st EXCEPT !.brace_level = 0,
                            !.kv_list = Append(@, value),
                            !.raised = @ \/ value.t = "error",
                            !.start_idx = cur_idx + 1]
         ELSE [st EXCEPT !.brace_level = @ - 1]
    ELSE IF char = "\n"
    THEN [st EXCEPT !.end_idx = cur_idx]
    ELSE st

\* an accumulator that is not created anew by the call but is the one the
\* call before left behind
LocalsKept(response) ==
    [brace_level |-> 0, kv_list |-> res.kv_list, start_idx |-> 0,
     end_idx |-> Len(response), found_key |-> FALSE, raised |-> FALSE]

\* the local variables of parse_kv_response as a call sets them up, lines
\* 91-95
Locals(response) ==
    [brace_level |-> 0, kv_list |-> <<>>, start_idx |-> 0,
     end_idx |-> Len(response), found_key |-> FALSE, raised |-> FALSE]

RECURSIVE KvScan(_, _, _)
KvScan(response, cur_idx, st) ==
    IF cur_idx = Len(response) THEN st
    ELSE KvScan(response, cur_idx + 1, KvStep(response, cur_idx, st))

\* the accumulator of parse_kv_response after the loop and the last
\* _add_to_kv_list
Accumulator(response) ==
    LET st == KvScan(response, 0, Locals(response))
        a == add_to_kv_list(st.kv_list,
                            Slice(response, st.start_idx, st.end_idx))
    IN [kv_list |-> a.kv_list, found_key |-> st.found_key \/ a.found,
        raised |-> st.raised]

parse_kv_response(response) ==
    IF response = <<>> THEN EmptyDict
    ELSE LET acc == Accumulator(response) IN
         IF acc.raised THEN TypeError
         ELSE IF acc.found_key THEN kv_list_to_dict(acc.kv_list)
         ELSE List(acc.kv_list)

(***************************************************************************)
(* The decoder applied to texts: every text of up to MaxText pieces, a     *)
(* brace group that follows a key among pairs, and the text written from   *)
(* a mapping of plain strings.                                             *)
(***************************************************************************)
DecodeTexts(n) == UNION {[1..k -> DecodeAlphabet] : k \in 0..n}

\* the brace depth after each of the first n pieces
RECURSIVE Depth(_, _)
Depth(s, n) ==
    IF n = 0 THEN 0
    ELSE Depth(s, n - 1) + (IF s[n] = "{" THEN 1
                            ELSE IF s[n] = "}" THEN -1 ELSE 0)

Balanced(s) ==
    /\ Depth(s, Len(s)) = 0
    /\ \A n \in 1..Len(s) : Depth(s, n) >= 0

Words == {<<a>> : a \in Letters \cup Reserved} \cup {<<"x", "y">>}

Keys == {<<"x">>, <<"y">>, <<"x", "y">>, <<"date", "x">>}

GroupPrefixes == {<<>>, <<"x", " ", "y", " ">>, <<"y", "{", "x", "}", "\n">>}

GroupSuffixes == {<<>>, <<"\n">>, <<" ", "y", "y", " ", "x">>,
                  <<"\n", "y", "y", " ", "x">>}

GroupInputs(n) ==
    {[kind |-> "group",
      text |-> p[1] \o p[2] \o p[3] \o <<"{">> \o p[4] \o <<"}">> \o p[5],
      parts |-> <<p[1], p[2], p[4], p[5]>>] :
        p \in GroupPrefixes \X Keys \X {<<>>, <<" ">>}
              \X {b \in DecodeTexts(n) : Balanced(b)}
              \X GroupSuffixes}

\* a brace group that follows a reserved key or an ordinary one: the group
\* holds any short balanced text, or one or two brace groups
GroupTexts(m) ==
    {b \in UNION {[1..k -> {"x", "y", " ", "{", "}"}] : k \in 0..m} :
        Balanced(b)}

StrategyBodies(n, m) ==
    {b \in DecodeTexts(n) : Balanced(b)}
    \cup {<<"{">> \o a \o <<"}">> : a \in GroupTexts(m)}
    \cup {<<"{">> \o p[1] \o <<"}">> \o p[2] \o <<"{">> \o p[3] \o <<"}">> :
             p \in GroupTexts(m) \X {<<>>, <<" ">>} \X GroupTexts(m)}

StrategyInputs(n, m) ==
    {[kind |-> "strategy",
      text |-> <<p[1]>> \o p[2] \o <<"{">> \o p[3] \o <<"}">>,
      parts |-> <<(<<>>), (<<p[1]>>), p[3], (<<>>)>>] :
        p \in (Reserved \cup {"x"}) \X {<<>>, <<" ">>} \X StrategyBodies(n, m)}

PairLists(np) ==
    {m \in UNION {[1..n -> Words \X Words] : n \in 0..np} :
        \A i, j \in 1..Len(m) : i # j => m[i][1] # m[j][1]}

\* 'key value key value ...', the tokens separated by spaces
RECURSIVE Encode(_)
Encode(m) ==
    IF m = <<>> THEN <<>>
    ELSE Head(m)[1] \o <<" ">> \o Head(m)[2]
         \o (IF Len(m) = 1 THEN <<>> ELSE <<" ">> \o Encode(Tail(m)))

TextInputs(n) ==
    {[kind |-> "text", text |-> s, parts |-> <<>>] : s \in DecodeTexts(n)}

PairInputs(np) ==
    {[kind |-> "pairs", text |-> Encode(m), parts |-> m] : m \in PairLists(np)}

DecodeInit ==
    /\ \/ arg \in TextInputs(MaxText)
       \/ arg \in GroupInputs(MaxGroup)
       \/ arg \in StrategyInputs(MaxGroup, MaxInner)
       \/ arg \in PairInputs(MaxPairs)
    /\ res = [done |-> FALSE, val |-> EmptyDict]
    /\ start_cmd = FALSE /\ end_cmd = FALSE
    /\ Constructed

ParseKvResponse ==
    /\ ~res.done
    /\ res' = [done |-> TRUE, val |-> parse_kv_response(arg.text)]
    /\ UNCHANGED <<arg, start_cmd, end_cmd, childVars, has_queue, queue, stream,
                   readerVars, nenq, rd, enq, ownerVars>>

DecodeNext == ParseKvResponse

DecodeSpec == DecodeInit /\ [][DecodeNext]_vars

(***************************************************************************)
(* The record extractor, Dsync_parse.get_files, applied to decoded values. *)
(* A key or a plain value is a one-piece string such as "type" or "file".  *)
(***************************************************************************)
MaxObjects == 2

None == [t |-> "none", v |-> <<>>]
KeyError == [t |-> "error", v |-> <<"KeyError">>]
AttributeError == [t |-> "error", v |-> <<"AttributeError">>]
ValueError == [t |-> "error", v |-> <<"ValueError">>]

\* kv_response.get(key)
Get(d, key) == IF <<key>> \in DOMAIN d.v THEN d.v[<<key>>] ELSE None

\* bool(value): None and the empty str, list and dict are false
Truthy(value) ==
    /\ value.t # "none"
    /\ value.t = "dict" => DOMAIN value.v # {}
    /\ value.t \in {"str", "list"} => value.v # <<>>

\* obj_dict.update(props) without the entries of props
UpdateNothing(obj_dict, props) ==
    IF props.t = "dict" \/ ~Truthy(props) THEN Dict(obj_dict) ELSE ValueError

\* obj_dict.update(props): the entries of a dict replace and extend those of
\* obj_dict, an empty str or list adds nothing, and a non-empty str or a list
\* whose items are not pairs raises ValueError (a list of pairs is not among
\* the values modelled)
Update(obj_dict, props) ==
    IF props.t = "dict"
    THEN Dict([k \in DOMAIN obj_dict \cup DOMAIN props.v |->
                 IF k \in DOMAIN props.v THEN props.v[k] ELSE obj_dict[k]])
    ELSE IF ~Truthy(props) THEN Dict(obj_dict)
    ELSE ValueError

\* the items that "for obj_list in objects" iterates over: the items of a
\* list, the characters of a str, the keys of a dict
Iterate(objects) ==
    IF objects.t = "list" THEN objects.v
    ELSE IF objects.t = "str"
    THEN [i \in 1..Len(objects.v) |-> Str(<<objects.v[i]>>)]
    ELSE <<Str(<<"key">>)>>

RECURSIVE get_files(_)

\* files.extend(get_files(obj_list)) for the items from index i on; an
\* exception raised for an item leaves the loop
RECURSIVE ExtendFiles(_, _)
ExtendFiles(items, i) ==
    IF i > Len(items) THEN List(<<>>)
    ELSE LET first == get_files(items[i]) IN
         IF first.t = "error" THEN first
         ELSE LET rest == ExtendFiles(items, i + 1) IN
              IF rest.t = "error" THEN rest
              ELSE List(first.v \o rest.v)

get_files(kv_response) ==
    IF kv_response.t # "dict" THEN AttributeError
    ELSE LET type == Get(kv_response, "type") IN
         IF type.t = "str" /\ type.v = <<"file">>
         THEN IF <<"name">> \notin DOMAIN kv_response.v THEN KeyError
              ELSE IF <<"props">> \notin DOMAIN kv_response.v THEN KeyError
              ELSE LET obj_dict == Update(
                          [k \in {<<"name">>} |-> Get(kv_response, "name")],
                          Get(kv_response, "props"))
                   IN IF obj_dict.t = "error" THEN obj_dict
                      ELSE List(<<obj_dict>>)
         ELSE IF Truthy(Get(kv_response, "objects"))
         THEN ExtendFiles(Iterate(Get(kv_response, "objects")), 1)
         ELSE List(<<>>)

(***************************************************************************)
(* The trees handed to get_files: nodes with or without each of type,      *)
(* name, props and objects, objects lists of up to MaxObjects nodes, two   *)
(* levels deep, and the decodings of some texts.                           *)
(***************************************************************************)
Word(w) == Str(<<w>>)

\* the dict with the given values under type, name, props and objects,
\* without the keys whose value is None
MkNode(ty, nm, pr, ob) ==
    LET e == [type |-> ty, name |-> nm, props |-> pr, objects |-> ob] IN
    Dict([k \in {<<f>> : f \in {g \in DOMAIN e : e[g].t # "none"}} |->
             e[k[1]]])

PropsValues ==
    {EmptyDict,
     Dict([k \in {<<"x">>} |-> Word("y")]),
     Dict([k \in {<<"name">>, <<"x">>} |->
             IF k = <<"name">> THEN Word("g") ELSE Word("y")])}

LeafNodes ==
    {MkNode(Word("file"), Word(n), p, None) :
        <<n, p>> \in {"f", "g"} \X PropsValues}

OddNodes ==
    {MkNode(Word("file"), None, EmptyDict, None),
     MkNode(Word("file"), Word("f"), None, None),
     MkNode(Word("file"), Word("f"), Word("x"), None),
     MkNode(Word("dir"), Word("f"), None, None),
     Word("x")}

Lists(S, n) == UNION {[1..k -> S] : k \in 0..n}

Containers(n) ==
    {MkNode(None, None, None, List(c)) :
        c \in Lists(LeafNodes \cup {MkNode(Word("dir"), Word("f"), None, None)},
                    n)}

TreeInputs(n) ==
    {[kind |-> "tree", text |-> <<>>, tree |-> MkNode(p[1], p[2], p[3], p[4])] :
        p \in {None, Word("file")} \X {None, Word("f")}
              \X {None, Dict([k \in {<<"x">>} |-> Word("y")])}
              \X ({None, Word("x")}
                  \cup {List(c) : c \in Lists(LeafNodes \cup OddNodes
                                              \cup Containers(n), n)})}

ExtractTexts ==
    {<<"type", " ", "file", " ", "name", " ", "x", " ", "props", " ", "{",
       "x", " ", "y", "}">>,
     <<"objects", " ", "{", "{", "type", " ", "file", " ", "name", " ", "x",
       " ", "props", " ", "{", "x", " ", "y", "}", "}", " ", "{", "type", " ",
       "file", " ", "name", " ", "y", " ", "props", " ", "{", "}", "}", "}">>,
     <<"type", " ", "file">>,
     <<"type", " ", "file", " ", "name", " ", "x", " ", "props", " ", "y">>,
     <<"name", " ", "x", " ", "objects", " ", "x">>,
     <<"{", "x", " ", "y", "}">>,
     <<"x", " ", "y">>,
     <<>>}

DecodedInputs ==
    {[kind |-> "decoded", text |-> s, tree |-> parse_kv_response(s)] :
        s \in ExtractTexts}

NodeInputs ==
    {[kind |-> "tree", text |-> <<>>, tree |-> n] :
        n \in LeafNodes \cup OddNodes}

ExtractInit ==
    /\ \/ arg \in TreeInputs(MaxObjects)
       \/ arg \in NodeInputs
       \/ arg \in DecodedInputs
    /\ res = [done |-> FALSE, val |-> List(<<>>)]
    /\ start_cmd = FALSE /\ end_cmd = FALSE
    /\ Constructed

GetFiles ==
    /\ ~res.done
    /\ res' = [done |-> TRUE, val |-> get_files(arg.tree)]
    /\ UNCHANGED <<arg, start_cmd, end_cmd, childVars, has_queue, queue, stream,
                   readerVars, nenq, rd, enq, ownerVars>>

ExtractNext == GetFiles

ExtractSpec == ExtractInit /\ [][ExtractNext]_vars

(***************************************************************************)
(* One session object entered several times.  run_shell spawns a new       *)
(* process and starts a new reader thread at every entry, and leaving the  *)
(* scope neither stops the reader nor waits for the child; read_output     *)
(* looks up self.process at every read, so a reader started by an earlier  *)
(* entry goes on with the process of the latest one.  The record in res    *)
(* holds the processes' output pipes and the reader threads by entry.      *)
(***************************************************************************)
MaxEnter == 3

Entries == 1..MaxEnter

ReentryInit ==
    /\ arg = <<>>
    /\ res = [scope |-> "out", entered |-> 0, process |-> 0,
              stdout |-> [p \in Entries |-> "none"],
              thread |-> [t \in Entries |-> "none"],
              reading |-> [t \in Entries |-> 0],
              read_running |-> FALSE]
    /\ start_cmd = FALSE /\ end_cmd = FALSE
    /\ Constructed

ReentryUnchanged ==
    UNCHANGED <<arg, start_cmd, end_cmd, childVars, has_queue, queue, stream,
                readerVars, nenq, rd, enq, ownerVars>>

\* run_shell up to subprocess.Popen: self.process is the new process
EnterScope ==
    /\ res.scope = "out" /\ res.entered < MaxEnter
    /\ res' = [res EXCEPT !.scope = "popen",
                          !.entered = @ + 1,
                          !.process = res.entered + 1,
                          !.stdout[res.entered + 1] = "open"]
    /\ ReentryUnchanged

\* run_shell: a new queue and a new thread running read_output, then the body
StartReader ==
    /\ res.scope = "popen"
    /\ res' = [res EXCEPT !.scope = "body", !.thread[res.entered] = "start"]
    /\ ReentryUnchanged

\* the body ends and run_shell's except: or else: branch runs; neither joins
\* the thread nor waits for the process
LeaveScope ==
    /\ res.scope = "body"
    /\ res' = [res EXCEPT !.scope = "out"]
    /\ ReentryUnchanged

\* a child exits, at any time, which closes its output
ChildCloses ==
    /\ \E p \in Entries :
          /\ res.stdout[p] = "open"
          /\ res' = [res EXCEPT !.stdout[p] = "closed"]
    /\ ReentryUnchanged

\* read_output, line 129
ReaderBegins ==
    /\ \E t \in Entries :
          /\ res.thread[t] = "start"
          /\ res' = [res EXCEPT !.thread[t] = "loop", !.read_running = TRUE]
    /\ ReentryUnchanged

\* read_output, line 131: the read is made on the output of the process that
\* self.process names now
ReaderCalls ==
    /\ \E t \in Entries :
          /\ res.thread[t] = "loop"
          /\ res' = [res EXCEPT !.thread[t] = "blocked",
                                !.reading[t] = res.process]
    /\ ReentryUnchanged

\* the read returns a character of a child that is running, and the loop
\* goes on
ReaderGetsData ==
    /\ \E t \in Entries :
          /\ res.thread[t] = "blocked"
          /\ res.stdout[res.reading[t]] = "open"
          /\ res' = [res EXCEPT !.thread[t] = "loop"]
    /\ ReentryUnchanged

\* the read returns nothing, the output is closed: the thread ends
ReaderEnds ==
    /\ \E t \in Entries :
          /\ res.thread[t] = "blocked"
          /\ res.stdout[res.reading[t]] = "closed"
          /\ res' = [res EXCEPT !.thread[t] = "ended",
                                !.read_running = FALSE]
    /\ ReentryUnchanged

ReentryNext ==
    \/ EnterScope \/ StartReader \/ LeaveScope \/ ChildCloses
    \/ ReaderBegins \/ ReaderCalls \/ ReaderGetsData \/ ReaderEnds

ReentrySpec == ReentryInit /\ [][ReentryNext]_vars

(***************************************************************************)
(* The environment of the child: run_shell copies os.environ, sets every   *)
(* variable of self.env in the copy, and hands the copy to Popen.          *)
(***************************************************************************)
EnvNames == {"HOME", "PATH", "TERM"}
EnvValues == {"a", "b"}

Environments == UNION {[S -> EnvValues] : S \in SUBSET EnvNames}

EnvInit ==
    /\ arg \in [environ : Environments, env : Environments]
    /\ res = [at |-> "start", environ |-> arg.environ, sub_env |-> <<>>,
              todo |-> {}, child_env |-> <<>>]
    /\ start_cmd = FALSE /\ end_cmd = FALSE
    /\ Constructed

EnvUnchanged ==
    UNCHANGED <<arg, start_cmd, end_cmd, childVars, has_queue, queue, stream,
                readerVars, nenq, rd, enq, ownerVars>>

\* sub_env = os.environ.copy()
EnvCopy ==
    /\ res.at = "start"
    /\ res' = [res EXCEPT !.at = "loop", !.sub_env = res.environ,
                          !.todo = DOMAIN arg.env]
    /\ EnvUnchanged

\* sub_env[var] = self.env[var], for the next var of self.env
EnvSet ==
    /\ res.at = "loop"
    /\ \E var \in res.todo :
          res' = [res EXCEPT
                    !.sub_env = [k \in DOMAIN res.sub_env \cup {var} |->
                                    IF k = var THEN arg.env[var]
                                    ELSE res.sub_env[k]],
                    !.todo = @ \ {var}]
    /\ EnvUnchanged

\* Popen handed self.env in place of the copy
EnvPopenOverlayOnly ==
    /\ res.at = "loop" /\ res.todo = {}
    /\ res' = [res EXCEPT !.at = "spawned", !.child_env = arg.env]
    /\ EnvUnchanged

\* subprocess.Popen(..., env=sub_env)
EnvPopen ==
    /\ res.at = "loop" /\ res.todo = {}
    /\ res' = [res EXCEPT !.at = "spawned", !.child_env = res.sub_env]
    /\ EnvUnchanged

EnvNext == EnvCopy \/ EnvSet \/ EnvPopen

EnvSpec == EnvInit /\ [][EnvNext]_vars

(***************************************************************************)
(* Several calls of the decoder, one after the other, on any texts.  The   *)
(* record in res holds the calls made so far, each with its text and the   *)
(* value returned, and the accumulator that the last call left behind.     *)
(***************************************************************************)
MaxDecodes == 3

PureTexts ==
    {<<>>,
     <<"x", " ", "y">>,
     <<"x", " ", "{", "y", " ", "x", "}">>,
     <<"{", "x", "}", "{", "y", "}">>,
     <<"{", "}", "x">>,
     <<"objects", "{", "{", "x", " ", "y", " ", "}", "}">>}

PureInit ==
    /\ arg = <<>>
    /\ res = [calls |-> <<>>, kv_list |-> <<>>]
    /\ start_cmd = FALSE /\ end_cmd = FALSE
    /\ Constructed

CallDecode ==
    /\ Len(res.calls) < MaxDecodes
    /\ \E response \in PureTexts :
          res' = [calls |-> Append(res.calls,
                               [text |-> response,
                                val |-> parse_kv_response(response)]),
                  kv_list |-> Accumulator(response).kv_list]
    /\ UNCHANGED <<arg, start_cmd, end_cmd, childVars, has_queue, queue, stream,
                   readerVars, nenq, rd, enq, ownerVars>>

PureNext == CallDecode

PureSpec == PureInit /\ [][PureNext]_vars

(***************************************************************************)
(* The reader thread over the bytes of the child's output                  *)
(* read_output reads one byte at a time and decodes each byte on its own   *)
(* as UTF-8 (src/dm/Process.py:131).                                       *)
(***************************************************************************)
MaxBytes == 3

\* "\n", "%", "a", a UTF-8 continuation byte and a UTF-8 lead byte
Bytes == {10, 37, 97, 128, 195}

ByteStreams == UNION {[1..k -> Bytes] : k \in 0..MaxBytes}

UnicodeDecodeError == [ok |-> FALSE, ch |-> ""]

\* bytes([b]).decode("utf-8"): a single byte is a character only below 0x80
decode(b) ==
    IF b < 128
    THEN [ok |-> TRUE,
          ch |-> CASE b = 10 -> "\n" [] b = 37 -> "%" [] OTHER -> "a"]
    ELSE UnicodeDecodeError

\* the child wrote arg.bytes and closed its output; the thread object exists
ByteInit ==
    /\ arg \in [bytes : ByteStreams, stream : BOOLEAN]
    /\ res = [at |-> "created", unread |-> arg.bytes, output |-> <<>>,
              queue |-> <<>>, read_running |-> FALSE, exc |-> "none"]
    /\ start_cmd = FALSE /\ end_cmd = FALSE
    /\ Constructed

ByteUnchanged ==
    UNCHANGED <<arg, start_cmd, end_cmd, childVars, has_queue, queue, stream,
                readerVars, nenq, rd, enq, ownerVars>>

\* self.thread.start(): the thread is alive and has not run a statement yet
ByteThreadStart ==
    /\ res.at = "created"
    /\ res' = [res EXCEPT !.at = "begin"]
    /\ ByteUnchanged

\* output = ""; self.read_running = True
ByteReaderBegins ==
    /\ res.at = "begin"
    /\ res' = [res EXCEPT !.at = "read", !.read_running = TRUE]
    /\ ByteUnchanged

\* data = self.process.stdout.read(1).decode("utf-8"), a byte was read: an
\* exception of decode ends the thread, a character is appended to output
ByteReaderRead ==
    /\ res.at = "read" /\ res.unread # <<>>
    /\ LET data == decode(Head(res.unread)) IN
          res' = IF data.ok
                 THEN [res EXCEPT !.at = "check",
                                  !.unread = Tail(res.unread),
                                  !.output = Append(res.output, data.ch)]
                 ELSE [res EXCEPT !.at = "dead",
                                  !.unread = Tail(res.unread),
                                  !.exc = "UnicodeDecodeError"]
    /\ ByteUnchanged

\* read(1) returned b"": self.read_running = False; return
ByteReaderEof ==
    /\ res.at = "read" /\ res.unread = <<>>
    /\ res' = [res EXCEPT !.at = "returned", !.read_running = FALSE]
    /\ ByteUnchanged

\* the flush test and self.queue.put(output); output = ""
ByteReaderCheck ==
    /\ res.at = "check"
    /\ res' = IF \/ EndsWith(res.output, prompt)
                 \/ (arg.stream /\ EndsWith(res.output, <<"\n">>))
              THEN [res EXCEPT !.at = "read",
                               !.queue = Append(res.queue, res.output),
                               !.output = <<>>]
              ELSE [res EXCEPT !.at = "read"]
    /\ ByteUnchanged

ByteNext ==
    \/ ByteThreadStart \/ ByteReaderBegins \/ ByteReaderRead
    \/ ByteReaderEof \/ ByteReaderCheck

ByteSpec == ByteInit /\ [][ByteNext]_vars

(***************************************************************************)
(* Claims                                                                  *)
(***************************************************************************)

\* C1: the chunk run(cmd) returns is output the child produced in response to
\* cmd; in particular the late answer of a command whose run timed out is never
\* returned as the answer to a later command.  Stated as that last clause: no
\* character of a chunk run returns was written by the child in answer to a
\* command whose run had timed out.
C1_NoLateAnswerReturned ==
    (ret.op = "run" /\ ret.kind = "value")
        => \A i \in 1..Len(ret.chunk) : ret.chunk[i].cmd \notin timedout

\* C2: every chunk queued at the moment send(cmd) is called has left the queue
\* before cmd is written, and no later wait returns it.
C2_PurgeBeforeSend ==
    /\ pc # "purge" => QueueIds \cap stale = {}
    /\ ret.kind \in {"value", "true", "yield"} => ret.id \notin stale

\* C2 witness: a chunk was queued when run was called, and run returned the
\* answer to its own command.
C2_Witness ==
    /\ ret.op = "run" /\ ret.kind = "value"
    /\ stale # {}
    /\ \A i \in 1..Len(ret.chunk) : ret.chunk[i].cmd = ret.cmd

\* C3: run returns the chunk with exactly one trailing occurrence of the prompt
\* removed and then leading and trailing whitespace removed, and removes no
\* other character of the body.
C3_StripsOnePromptOnly ==
    res.done => res.val = Strip(DropSuffix(arg.chunk, arg.prompt))

\* C9: a failure inside the scoped session, in start-up or in the body, is the
\* failure that reaches the caller after cleanup, also when the cleanup's own
\* send of the end command cannot succeed.
C9_OriginalFailureReraised ==
    (pc = "done" /\ orig # NoExc) => raised = orig

\* C4: when no chunk arrives after a command, run ends by signalling a timeout
\* once the per-command timeout has elapsed: it does not hang, returns no value
\* and dequeues no chunk; when a chunk arrives in time, run's wait dequeues
\* exactly that one chunk.
RunWaiting == op = "run" /\ pc = "wait"

C4_Safety ==
    /\ RunWaiting => waited < timeout
    /\ (ret.op = "run" /\ ret.kind = "timeout")
          => (ret.ndeq = 0 /\ ret.waited = timeout /\ ret.chunk = <<>>)
    /\ (ret.op = "run" /\ ret.kind = "value")
          => (ret.ndeq = 1 /\ ret.waited < timeout)

\* the wait can always go on or end: time passes, a chunk is taken, or the
\* timeout is signalled
RunWaitCanEnd == ENABLED (Tick \/ Dequeue \/ Expire)

\* C4: run never hangs; it signals a timeout exactly when the per-command
\* timeout has elapsed, having dequeued nothing and returning no value, or it
\* dequeues exactly one chunk in time.
C4_RunTimesOutOrTakesOneChunk ==
    /\ C4_Safety
    /\ RunWaiting => RunWaitCanEnd

\* C4 witness: a run has signalled a timeout without dequeuing anything
C4_Witness ==
    /\ ret.op = "run" /\ ret.kind = "timeout" /\ ret.ndeq = 0
    /\ pc = "idle"

\* C6: every stream call is finite: under fair scheduling, also when the child
\* closes its output before printing the prompt, a stream call that is
\* waiting for its next chunk eventually stops waiting and returns control to
\* its caller.
StreamWaiting == op = "stream" /\ pc = "wait"

\* C6: a waiting stream call eventually stops waiting (fair scheduling).
C6_StreamCallEnds == StreamWaiting ~> ~StreamWaiting

\* C5: if the child answers stream(cmd) with N newline-terminated lines
\* followed by the prompt (hist is what it emitted after reading cmd), stream
\* yields exactly N+1 chunks, the first N ending with a newline and the last
\* with the prompt, and then stops.
LinesThenPrompt(h) ==
    /\ EndsWith(h, prompt)
    /\ \A k \in 1..(Len(h) - 1) : ~EndsWith(SubSeq(h, 1, k), prompt)
    /\ Len(h) > Len(prompt) => h[Len(h) - Len(prompt)] = "\n"

NLines(h) == Cardinality({i \in 1..Len(h) : h[i] = "\n"})

\* C5: N newline-terminated lines and the prompt in answer to stream(cmd) give
\* exactly N+1 yielded chunks, N ending with a newline, the last with the prompt.
C5_StreamYieldsLinesThenPrompt ==
    (op = "stream" /\ ret.kind = "done" /\ LinesThenPrompt(hist))
        => /\ Len(yields) = NLines(hist) + 1
           /\ \A i \in 1..Len(yields) :
                 EndsWith(yields[i], IF i = Len(yields) THEN prompt ELSE <<"\n">>)

\* C7: when the per-command timeout elapses after a stream call's command was
\* sent and no chunk has arrived, stream signals a timeout as run does: a
\* stream call is never still waiting once the timeout has elapsed.
C7_StreamSignalsTimeout == StreamWaiting => waited < timeout

\* C7 as amended: stream signals no timeout.  Its wait has no timeout and ends
\* only by dequeuing a chunk, which is yielded.
C7_StreamWaitEndsOnlyWithChunk ==
    [][(StreamWaiting /\ ~StreamWaiting')
          => (pc' = "yielded" /\ Len(yields') = Len(yields) + 1)]_vars

\* C7 witness: a stream call still blocked after the per-command timeout
C7_Witness == StreamWaiting /\ waited = timeout /\ queue = <<>>

\* C8: whenever the scope is left from its body, normally or by a failure, and
\* an end command is configured, the end command is written to the child's
\* input exactly once, after every command the body sent; with no end command
\* nothing is written on exit.
LeftFromBody == pc = "done" /\ orig.at # "startup"

EndWrittenOnceLast ==
    /\ Len(sent) = sent_at_exit + 1
    /\ sent[Len(sent)].kind = "end"
    /\ \A i \in 1..sent_at_exit : sent[i].kind # "end"

\* C8: on leaving the body the end command, if configured, is written exactly
\* once and last; otherwise nothing is written.
C8_EndCommandWrittenOnce ==
    LeftFromBody => IF end_cmd THEN EndWrittenOnceLast
                               ELSE Len(sent) = sent_at_exit

\* C8 as amended: the same, unless the child has closed its input, in which
\* case the write of the end command fails and nothing is written.
C8_EndCommandWrittenOnceIfInputOpen ==
    LeftFromBody =>
        IF end_cmd /\ raised # Exc("BrokenPipeError", "cleanup")
        THEN EndWrittenOnceLast
        ELSE Len(sent) = sent_at_exit

\* C8 witness: the body sent a command and failed, and the end command was
\* written after it
C8_Witness ==
    /\ LeftFromBody /\ end_cmd
    /\ orig = Exc("BodyError", "body")
    /\ sent_at_exit >= 1
    /\ EndWrittenOnceLast

\* C10: wait_ready returns true exactly when a chunk is dequeued within the
\* init-timeout and false when the init-timeout elapses with the queue empty;
\* in the false case it raises nothing and leaves the child, the reader and
\* the queue as they were.
ReadyWaiting == op = "wait_ready" /\ pc = "wait"

ReadyWaitCanEnd == ENABLED (Tick \/ Dequeue \/ WaitExpire)

\* C10: wait_ready returns true exactly on a chunk dequeued within the
\* init-timeout, false when it elapses with the queue empty, then raising
\* nothing and leaving child, reader and queue as they were.
C10_WaitReady ==
    /\ ReadyWaiting => (waited < init_timeout /\ ReadyWaitCanEnd)
    /\ orig.at # "wait_ready"
    /\ ret.op = "wait_ready" =>
          /\ ret.kind \in {"true", "false"}
          /\ ret.kind = "true" => (ret.ndeq = 1 /\ ret.waited < init_timeout)
          /\ ret.kind = "false" =>
                (ret.ndeq = 0 /\ ret.waited = init_timeout /\ ret.kept)

\* C10 witness: wait_ready has returned false, the child and the reader run on
C10_Witness ==
    /\ ret.op = "wait_ready" /\ ret.kind = "false"
    /\ child = "alive" /\ rpc = "read" /\ read_running

\* C11: in dry-run mode send, run and stream never write to the child's input
\* and never block waiting on the queue; run returns the empty string and
\* stream yields no chunk.
C11_DryRunNoIO ==
    [][op' \in TestOps =>
          /\ sent' = sent
          /\ Len(stdin') <= Len(stdin)
          /\ pc' \notin {"wait", "yielded"}
          /\ ret'.op = "run_test" =>
                (ret'.kind = "value" /\ ret'.val = <<>> /\ ret'.ndeq = 0)
          /\ ret'.op = "stream_test" =>
                (ret'.kind = "done" /\ yields' = <<>>)]_vars

\* C11 witness: a dry-run stream has ended after a dry-run run returned, with
\* the child alive and nothing written to it
C11_Witness ==
    /\ ret.op = "stream_test" /\ ret.kind = "done"
    /\ nbody = 2 /\ child = "alive" /\ sent_at_exit = 0
    /\ \A i \in 1..Len(sent) : sent[i].kind = "start"

\* C12: at most one command written to the child is still awaiting its
\* response (no pipelining), whatever the body calls.  A command the child has
\* not yet read from its input is awaiting its response, so while the body
\* runs at most one command is unread in the child's input.
C12_NoPipelining == op # "end" => Len(stdin) <= 1

\* C13: once the reader has observed end-of-output no chunk is ever enqueued
\* again and every later wait (wait_ready, get_response, the wait inside run)
\* ends in a timeout.  A wait that begins with a chunk in the queue returns
\* that chunk at once, so this says that after end-of-output no timed wait
\* begins with the queue non-empty.
WaitBegins == pc # "wait" /\ pc' = "wait" /\ op' \in {"run", "get", "wait_ready"}

C13_LaterWaitsTimeOut ==
    [][rpc = "dead" =>
          /\ rpc' = "dead" /\ nenq' = nenq /\ Len(queue') <= Len(queue)
          /\ WaitBegins => queue' = <<>>]_vars

\* C13 as amended: once the reader has observed end-of-output no chunk is ever
\* enqueued again, and every timed wait that finds the queue empty after that
\* ends in a timeout (wait_ready returns false, get_response raises
\* queue.Empty); chunks enqueued before end-of-output are still returned.
WaitTimedOut ==
    \/ ret'.kind \in {"timeout", "false"}
    \/ orig' = Exc("Empty", op)

C13_EmptyWaitsAfterEofTimeOut ==
    [][rpc = "dead" =>
          /\ rpc' = "dead" /\ nenq' = nenq /\ Len(queue') <= Len(queue)
          /\ (pc = "wait" /\ Timed /\ queue = <<>> /\ pc' # "wait")
                => WaitTimedOut]_vars

\* C13 witness: after end-of-output, with chunks enqueued earlier all taken, a
\* second call of the body has timed out
C13_Witness ==
    /\ rpc = "dead" /\ nenq > 0 /\ queue = <<>>
    /\ nbody = 2 /\ ret.kind \in {"timeout", "false"}

\* C14: the queue is a strict FIFO between the reader and the owner: the
\* owner dequeues chunks in the order the reader enqueued them, and before
\* end-of-output the concatenation of all chunks enqueued so far followed by
\* the reader's buffer is the sequence of characters read from the child so
\* far (rd is every character read, enq every chunk enqueued, in order).
RECURSIVE Flatten(_)
Flatten(ss) == IF ss = <<>> THEN <<>> ELSE Head(ss) \o Flatten(Tail(ss))

C14_FifoNothingLost ==
    /\ rpc # "dead" => Flatten(enq) \o output = rd
    /\ nenq = Len(enq)
    /\ \A i \in 1..Len(queue) :
          /\ queue[i].id = nenq - Len(queue) + i
          /\ queue[i].text = enq[queue[i].id]
    /\ (ret.kind \in {"value", "true", "yield"} /\ ret.ndeq > 0) =>
          /\ ret.chunk = enq[ret.id]
          /\ \A i \in 1..Len(queue) : ret.id < queue[i].id

\* C14 witness: two chunks were enqueued, the owner has taken the first and the
\* second is still queued
C14_Witness ==
    /\ rpc # "dead" /\ Len(enq) = 2 /\ Len(rd) = 2
    /\ ret.kind = "value" /\ ret.id = 1
    /\ Len(queue) = 1

\* C15: the reader enqueues and resets its buffer exactly when the buffer ends
\* with the prompt, or when the streaming flag is set and the buffer ends with
\* a newline, and at no other time; so every chunk enqueued while the
\* streaming flag is clear is non-empty, ends with the prompt and contains no
\* earlier complete occurrence of the prompt.
ReaderTests == rpc = "check" /\ rpc' # "check"

FlushCondition ==
    \/ EndsWith(Text(output), prompt)
    \/ (stream /\ EndsWith(Text(output), <<"\n">>))

OnePromptAtEnd(c) ==
    /\ c # <<>>
    /\ EndsWith(c, prompt)
    /\ \A k \in 1..(Len(c) - 1) : ~EndsWith(SubSeq(c, 1, k), prompt)

\* the buffer is enqueued and reset after a test that found the condition
\* true, and at no other time
FlushRule ==
    /\ ReaderTests =>
          /\ (rpc' = "put") <=> FlushCondition
          /\ output' = output /\ enq' = enq /\ queue' = queue
    /\ (rpc = "put" /\ rpc' # "put") =>
          /\ enq' = Append(enq, output)
          /\ queue' = Append(queue, [text |-> output, id |-> nenq + 1])
          /\ output' = <<>>
    /\ (enq' # enq \/ Len(queue') > Len(queue)
           \/ (output # <<>> /\ output' = <<>>)) => rpc = "put"

\* C15: flushes happen exactly at the prompt or at a streamed newline, and a
\* chunk enqueued while the streaming flag is clear ends with the only
\* occurrence of the prompt in it.
C15_FlushExactlyAtPromptOrStreamedNewline ==
    [][/\ FlushRule
       /\ (enq' # enq /\ ~stream) => OnePromptAtEnd(Text(enq'[Len(enq')]))]_vars

\* C15 as amended: the same, for every chunk whose test of the buffer found
\* the streaming flag clear.  The flag is read at the test and the owner may
\* clear it before the chunk is enqueued, so a chunk that ends with a newline
\* can be enqueued when the flag is already clear.
C15_FlushDecidedAtTest ==
    [][/\ FlushRule
       /\ (ReaderTests /\ ~stream /\ rpc' = "put")
             => OnePromptAtEnd(Text(output))]_vars

\* C15 witness: with the streaming flag clear a newline was read and kept in
\* the buffer, and the chunk was enqueued at the prompt that followed
C15_Witness ==
    /\ ~stream /\ Len(enq) = 1 /\ Text(enq[1]) = <<"\n", "%">>
    /\ output = <<>>

\* C16: a send followed by get_response returns the oldest queued chunk
\* verbatim, its trailing prompt not stripped; characters the child emits
\* after a prompt are not dropped but are the start of the next chunk (every
\* chunk is the part of the characters read that follows the chunk before
\* it); and a run that receives such a chunk returns it with the leading
\* characters' whitespace and one trailing prompt stripped, which is its own
\* response text when the characters left over are whitespace.
Offset(k) == Len(Flatten(SubSeq(enq, 1, k - 1)))

\* the characters of a chunk that answer command c, and the ones that do not
Own(chunk, c) == SelectSeq(chunk, LAMBDA x : x.cmd = c)

Leftover(chunk, c) == SelectSeq(chunk, LAMBDA x : x.cmd # c)

C16_VerbatimAndLeftoverKept ==
    /\ (ret.op = "get" /\ ret.kind = "value") =>
          /\ ret.val = Text(enq[ret.id])
          /\ EndsWith(ret.val, prompt)
          /\ \A i \in 1..Len(queue) : ret.id < queue[i].id
    /\ \A k \in 1..Len(enq) :
          enq[k] = SubSeq(rd, Offset(k) + 1, Offset(k) + Len(enq[k]))
    /\ output = SubSeq(rd, Offset(Len(enq) + 1) + 1, Len(rd))
    /\ (ret.op = "run" /\ ret.kind = "value") =>
          /\ ret.val = Strip(DropSuffix(Text(enq[ret.id]), prompt))
          /\ (\A i \in 1..Len(Leftover(enq[ret.id], ret.cmd)) :
                 Leftover(enq[ret.id], ret.cmd)[i].ch \in Whitespace) =>
                ret.val = Strip(DropSuffix(Text(Own(enq[ret.id], ret.cmd)),
                                           prompt))

\* C16 witness: the newline that followed the first prompt is the start of the
\* second chunk, and the run that received it returned its text stripped
C16_Witness ==
    /\ Len(enq) = 2
    /\ Text(enq[1]) = <<"%">> /\ Text(enq[2]) = <<"\n", "a", "%">>
    /\ enq[2][1].cmd < ret.cmd /\ enq[2][2].cmd = ret.cmd
    /\ ret.op = "run" /\ ret.kind = "value" /\ ret.id = 2
    /\ ret.val = <<"a">>

\* C17: a brace group {t}, t brace-balanced, that follows a non-reserved key
\* token k at depth 0 among pairs extends to the brace matching its opening
\* brace, and decode maps k to decode(t) (an exception raised decoding t
\* leaves decode too).
C17_GroupDecodesUnderKey ==
    (res.done /\ arg.kind = "group") =>
        LET k == arg.parts[2]
            sub == parse_kv_response(arg.parts[3])
        IN IF sub.t = "error" THEN res.val.t = "error"
           ELSE /\ res.val.t = "dict"
                /\ k \in DOMAIN res.val.v
                /\ res.val.v[k].t = sub.t
                /\ res.val.v[k] = sub

\* C17 witness: 'x y xy {{x}}', the nested group decoded under the key xy
C17_Witness ==
    /\ res.done /\ arg.kind = "group"
    /\ arg.parts = <<(<<"x", " ", "y", " ">>), (<<"x", "y">>),
                     (<<"{", "x", "}">>), (<<>>)>>
    /\ res.val.t = "dict"
    /\ DOMAIN res.val.v = {<<"x">>, <<"x", "y">>}
    /\ res.val.v[<<"x">>] = Str(<<"y">>)
    /\ res.val.v[<<"x", "y">>].t = "list"
    /\ Len(res.val.v[<<"x", "y">>].v) = 1

\* the mapping that a list of pairs with distinct keys stands for
MappingOf(m) ==
    Dict([k \in {m[i][1] : i \in 1..Len(m)} |->
            Str(m[CHOOSE i \in 1..Len(m) : m[i][1] = k][2])])

\* C18: round trip: a mapping whose keys are distinct and whose keys and
\* values are non-empty strings free of whitespace and braces, written as
\* 'key value key value ...' with the tokens separated by spaces, decodes to a
\* Mapping equal to the original.
C18_RoundTrip ==
    (res.done /\ arg.kind = "pairs") =>
        /\ res.val.t = "dict"
        /\ res.val = MappingOf(arg.parts)

\* C18 witness: 'date x xy objects' decoded to date -> x, xy -> objects
C18_Witness ==
    /\ res.done /\ arg.kind = "pairs"
    /\ arg.parts = <<(<<(<<"date">>), (<<"x">>)>>),
                     (<<(<<"x", "y">>), (<<"objects">>)>>)>>
    /\ arg.text = <<"date", " ", "x", " ", "x", "y", " ", "objects">>
    /\ DOMAIN res.val.v = {<<"date">>, <<"x", "y">>}
    /\ res.val.v[<<"date">>] = Str(<<"x">>)
    /\ res.val.v[<<"x", "y">>] = Str(<<"objects">>)

\* C19: the empty input decodes to the empty Mapping; a non-empty input with
\* balanced braces decodes to a Mapping exactly when the depth-0 scan accumulated at least one
\* plain token, and otherwise to a List holding the decoded brace groups in
\* input order.
C19_ContainerKind ==
    (res.done /\ arg.kind = "text" /\ Balanced(arg.text)) =>
        IF arg.text = <<>> THEN res.val = EmptyDict
        ELSE LET acc == Accumulator(arg.text) IN
             /\ (res.val.t = "dict") <=> acc.found_key
             /\ ~acc.found_key =>
                   /\ res.val.t = "list"
                   /\ res.val.v = acc.kv_list

\* the text has no newline at brace depth 0
NoTopNewline(s) == \A n \in 1..Len(s) : s[n] = "\n" => Depth(s, n) > 0

\* C20: a newline at brace depth 0 truncates the scan: for a brace-balanced
\* text x without a depth-0 newline and any text y, decoding x, a newline and
\* y gives what decoding x alone gives.
C20_NewlineTruncates ==
    (res.done /\ arg.kind = "text") =>
        \A n \in 1..Len(arg.text) :
            LET x == SubSeq(arg.text, 1, n - 1) IN
            (arg.text[n] = "\n" /\ Balanced(x) /\ NoTopNewline(x)) =>
                /\ res.val.t = parse_kv_response(x).t
                /\ res.val = parse_kv_response(x)

\* the texts between the braces of the top-level brace groups of a balanced
\* text, in order
RECURSIVE TopGroups(_)
TopGroups(s) ==
    IF \A i \in 1..Len(s) : s[i] # "{" THEN <<>>
    ELSE LET i == CHOOSE i \in 1..Len(s) :
                     s[i] = "{" /\ \A j \in 1..(i - 1) : s[j] # "{"
             j == CHOOSE j \in (i + 1)..Len(s) :
                     /\ Depth(s, j) = Depth(s, i - 1)
                     /\ \A m \in i..(j - 1) : Depth(s, m) > Depth(s, i - 1)
         IN <<SubSeq(s, i + 1, j - 1)>> \o TopGroups(SubSeq(s, j + 1, Len(s)))

\* a list of decoded items, or the exception that decoding one of them raised
ListOrError(items) ==
    IF \E i \in 1..Len(items) : items[i].t = "error" THEN TypeError
    ELSE List(items)

\* what the strategy selected by the key makes of the text between the braces
ByStrategy(key, body) ==
    IF key \in {<<"comment">>, <<"mtime">>, <<"date">>} THEN Str(body)
    ELSE IF key = <<"objects">>
    THEN ListOrError([i \in 1..Len(TopGroups(body)) |->
                         parse_kv_response(TopGroups(body)[i])])
    ELSE IF key = <<"tag_properties">>
    THEN List([i \in 1..Len(TopGroups(body)) |->
                  List([n \in 1..Len(Split(TopGroups(body)[i])) |->
                           Str(Split(TopGroups(body)[i])[n])])])
    ELSE parse_kv_response(body)

\* C21: decode strategy by key: a brace group immediately following comment,
\* mtime or date decodes to the text between its braces unchanged; one
\* following objects to the list of the key/value decodings of each top-level
\* brace group inside it; one following tag_properties to the list of the
\* whitespace-split word lists of each top-level brace group inside it; one
\* following any other token is decoded by decode itself.
C21_StrategyByKey ==
    (res.done /\ arg.kind = "strategy") =>
        LET want == ByStrategy(arg.parts[2], arg.parts[3]) IN
        IF want.t = "error" THEN res.val.t = "error"
        ELSE /\ res.val.t = "dict"
             /\ DOMAIN res.val.v = {arg.parts[2]}
             /\ res.val.v[arg.parts[2]].t = want.t
             /\ res.val.v[arg.parts[2]] = want

\* C22: decode is total: for every input, malformed or brace-unbalanced text
\* and text with a brace group where a key is expected included, decode
\* returns a Mapping, a List or a Scalar and signals no error.
C22_DecodeTotal == res.done => res.val.t \in {"dict", "list", "str"}

\* a leaf: a node that carries type = file, a name and a props sub-mapping
IsLeaf(n) ==
    /\ n.t = "dict"
    /\ Get(n, "type").t = "str" /\ Get(n, "type").v = <<"file">>
    /\ <<"name">> \in DOMAIN n.v
    /\ Get(n, "props").t = "dict"

HasObjectsList(n) == n.t = "dict" /\ Get(n, "objects").t = "list"

\* the leaves reachable from a node through objects lists, depth first and
\* left to right
RECURSIVE Leaves(_)
Leaves(n) ==
    IF IsLeaf(n) THEN <<n>>
    ELSE IF HasObjectsList(n)
    THEN Flatten([i \in 1..Len(Get(n, "objects").v) |->
                     Leaves(Get(n, "objects").v[i])])
    ELSE <<>>

\* C23: for every tree, extract returns exactly one record per file-type leaf
\* reachable from the root through objects lists, in depth-first,
\* left-to-right order: the i-th record is the one of the i-th leaf.
C23_OneRecordPerLeaf ==
    res.done =>
        /\ res.val.t = "list"
        /\ Len(res.val.v) = Len(Leaves(arg.tree))
        /\ \A i \in 1..Len(Leaves(arg.tree)) :
              LET leaf == Leaves(arg.tree)[i] IN
              /\ DOMAIN res.val.v[i].v =
                     {<<"name">>} \cup DOMAIN Get(leaf, "props").v
              /\ <<"name">> \notin DOMAIN Get(leaf, "props").v =>
                     res.val.v[i].v[<<"name">>] = Get(leaf, "name")

\* C24: the record extracted from a leaf with name n and props p maps name to
\* n and every key k of p to p[k], and has no other entries, also when p has
\* a name key.
C24_RecordIsNameAndProps ==
    (res.done /\ IsLeaf(arg.tree)) =>
        /\ res.val.t = "list" /\ Len(res.val.v) = 1
        /\ LET rec == res.val.v[1].v
               p == Get(arg.tree, "props").v
           IN /\ DOMAIN rec = {<<"name">>} \cup DOMAIN p
              /\ rec[<<"name">>] = Get(arg.tree, "name")
              /\ \A k \in DOMAIN p : rec[k] = p[k]

\* C25: extract returns normally for every decoded tree, and a node that is
\* not a leaf and has no objects list contributes no record.
C25_ExtractReturns ==
    res.done =>
        /\ res.val.t # "error"
        /\ (~IsLeaf(arg.tree) /\ ~HasObjectsList(arg.tree)) =>
              res.val = List(<<>>)

\* C24 as the code has it: the record of a leaf with name n and props p has
\* the keys of p and name and no others, maps every key k of p to p[k], and
\* maps name to n when p has no name key (a name entry of props replaces n).
C24_RecordIsPropsOverName ==
    (res.done /\ IsLeaf(arg.tree)) =>
        /\ res.val.t = "list" /\ Len(res.val.v) = 1
        /\ LET rec == res.val.v[1].v
               p == Get(arg.tree, "props").v
           IN /\ DOMAIN rec = {<<"name">>} \cup DOMAIN p
              /\ <<"name">> \notin DOMAIN p =>
                    rec[<<"name">>] = Get(arg.tree, "name")
              /\ \A k \in DOMAIN p : rec[k] = p[k]

\* C24 witness: the leaf named f with props name -> g, x -> y gives the one
\* record name -> g, x -> y
C24_Witness ==
    /\ res.done /\ IsLeaf(arg.tree)
    /\ Get(arg.tree, "name") = Word("f")
    /\ DOMAIN Get(arg.tree, "props").v = {<<"name">>, <<"x">>}
    /\ res.val.t = "list" /\ Len(res.val.v) = 1
    /\ res.val.v[1].v[<<"name">>] = Word("g")
    /\ res.val.v[1].v[<<"x">>] = Word("y")

\* the reader threads that have been started and have not ended
LiveReaders == {t \in Entries : res.thread[t] \in {"start", "loop", "blocked"}}

\* C26: a session has at most one live reader thread in every state, and
\* exactly one from entering the scope until the child closes its output,
\* also when the session object is entered again.
C26_OneReaderThread ==
    /\ Cardinality(LiveReaders) <= 1
    /\ (res.scope = "body" /\ res.stdout[res.process] = "open") =>
          Cardinality(LiveReaders) = 1

\* C27: the child's environment is the inherited environment overlaid with
\* the session's environment map: every variable of the overlay has the
\* overlay's value, every inherited variable not in the overlay keeps its
\* inherited value, and the parent's own environment is left unchanged.
C27_EnvironmentOverlay ==
    /\ res.environ = arg.environ
    /\ res.at = "spawned" =>
          /\ DOMAIN res.child_env = DOMAIN arg.environ \cup DOMAIN arg.env
          /\ \A var \in DOMAIN arg.env : res.child_env[var] = arg.env[var]
          /\ \A var \in DOMAIN arg.environ \ DOMAIN arg.env :
                res.child_env[var] = arg.environ[var]

\* C27 witness: HOME inherited, PATH replaced by the overlay, TERM added by it
C27_Witness ==
    /\ res.at = "spawned"
    /\ DOMAIN arg.environ = {"HOME", "PATH"}
    /\ DOMAIN arg.env = {"PATH", "TERM"}
    /\ arg.environ["PATH"] = "a" /\ arg.env["PATH"] = "b"
    /\ res.child_env["HOME"] = arg.environ["HOME"]
    /\ res.child_env["PATH"] = "b"
    /\ res.child_env["TERM"] = arg.env["TERM"]
    /\ res.environ["PATH"] = "a"

StreamActive ==
    /\ op \in {"stream", "stream_test"}
    /\ pc \in {"purge", "write", "wait", "yielded"}

\* C29: the streaming flag is set only while a stream call is in progress; in
\* every state in which no stream call is active (after a stream ran to its
\* prompt, after a dry-run stream call, after the caller stopped iterating)
\* the flag is clear.
C29_StreamFlagOnlyWhileStreaming == stream => StreamActive

\* C30: every chunk that a non-dry-run run dequeues ends with the prompt: run
\* never returns a partial response cut at a line break, for any sequence of
\* earlier run, stream and dry-run calls on the same session.
C30_RunChunkEndsWithPrompt ==
    (ret.op = "run" /\ ret.kind = "value")
        => EndsWith(Text(ret.chunk), prompt)

\* C31: the reader thread stops only when a read of the child's output
\* returns empty: for every byte value the child can emit the reader keeps
\* running and raises nothing, and the reader-running flag is true exactly
\* while the reader thread is alive (here: between its first statement and
\* its end).
C31_ReaderStopsOnlyAtEof ==
    /\ res.exc = "none"
    /\ res.at # "dead"
    /\ res.at = "returned" => res.unread = <<>>
    /\ res.read_running <=> res.at \in {"read", "check"}

\* C32: when the child closes its output, the characters the reader had
\* buffered since its last flush are discarded: from the step in which the
\* reader observes the end of the output on, no chunk is enqueued, the
\* buffered characters stay out of the queue, and every chunk a call returns
\* is one of the chunks enqueued before.
C32_BufferAtEofDiscarded ==
    [][rpc' = "dead" =>
          /\ enq' = enq /\ nenq' = nenq /\ output' = output
          /\ QueueIds' \subseteq QueueIds
          /\ (ret'.kind \in {"value", "true", "yield"} /\ ret'.id # 0) =>
                (ret'.id \in 1..Len(enq) /\ ret'.chunk = enq[ret'.id])]_vars

\* C32 witness: the reader ended with a character in its buffer, and a run
\* called after that timed out with nothing returned
C32_Witness ==
    /\ rpc = "dead" /\ output # <<>>
    /\ ret.op = "run" /\ ret.kind = "timeout"
    /\ sent # <<>> /\ queue = <<>>

\* no reader thread of the session is running
NoReaderRunning == rpc \in {"none", "dead"} /\ ~read_running

\* C33: if an end command is configured and the child exits and closes its
\* output on receiving it, then after the scope is left the reader thread
\* eventually observes end-of-output and terminates (under fair scheduling),
\* leaving no reader running for that session.
C33_ReaderEndsAfterScope ==
    (end_cmd /\ pc = "done" /\ child = "exited") ~> NoReaderRunning

\* C33 witness: the end command was written and read by the child, the child
\* exited, the scope is left and the reader has ended
C33_Witness ==
    /\ end_cmd /\ pc = "done" /\ child = "exited"
    /\ sent # <<>> /\ sent[Len(sent)].kind = "end"
    /\ cur = sent[Len(sent)].id
    /\ rpc = "dead" /\ ~read_running

\* C34: for a brace group that follows the key objects, each element of the
\* resulting list equals decode applied to the text strictly between that
\* element's own braces, for every element, whether its inner text ends with
\* a plain token or with a brace group.
C34_ObjectsElementsDecoded ==
    (res.done /\ arg.kind = "strategy" /\ arg.parts[2] = <<"objects">>) =>
        LET groups == TopGroups(arg.parts[3]) IN
        (/\ res.val.t = "dict"
         /\ DOMAIN res.val.v = {<<"objects">>}
         /\ res.val.v[<<"objects">>].t = "list") =>
            LET elems == res.val.v[<<"objects">>].v IN
            /\ Len(elems) = Len(groups)
            /\ \A i \in 1..Len(elems) :
                  LET want == parse_kv_response(groups[i]) IN
                  /\ elems[i].t = want.t
                  /\ elems[i] = want

\* C35: when decode returns a Mapping, its entries are exactly the pairs
\* (element 2i -> element 2i+1) of the depth-0 accumulator: every accumulator
\* element at an even position (counted from 0) appears as a key of the
\* Mapping with the element that follows it as its value, so no top-level key
\* is dropped.  Stated for non-empty texts with balanced braces.
C35_MappingIsAccumulatorPairs ==
    (res.done /\ res.val.t = "dict" /\ arg.text # <<>>
              /\ Balanced(arg.text)) =>
        LET kv == Accumulator(arg.text).kv_list IN
        /\ \A i \in 1..Len(kv) :
              i % 2 = 1 =>
                 /\ i + 1 <= Len(kv)
                 /\ kv[i].t = "str"
                 /\ kv[i].v \in DOMAIN res.val.v
                 /\ res.val.v[kv[i].v].t = kv[i + 1].t
                 /\ res.val.v[kv[i].v] = kv[i + 1]
        /\ \A k \in DOMAIN res.val.v :
              \E i \in 1..Len(kv) : i % 2 = 1 /\ kv[i].t = "str" /\ kv[i].v = k

\* the text with every newline inside braces replaced by a space
SameLine(s) ==
    [n \in 1..Len(s) |-> IF s[n] = "\n" /\ Depth(s, n) > 0 THEN " " ELSE s[n]]

\* C36: only a newline outside any brace affects the scan: for brace-balanced
\* texts x, t and y with no depth-0 newline, the tokens of y that follow the
\* brace group {t} are decoded into the result in the same way whether or not
\* t contains a newline: every entry of the result other than the group's own
\* is what it is when the newlines of t are spaces.
C36_NewlineInGroupIgnored ==
    (res.done /\ arg.kind = "group" /\ NoTopNewline(arg.text)) =>
        LET same == parse_kv_response(SameLine(arg.text)) IN
        /\ res.val.t = same.t
        /\ res.val.t = "dict" =>
              /\ DOMAIN res.val.v = DOMAIN same.v
              /\ \A k \in DOMAIN res.val.v \ {arg.parts[2]} :
                    /\ res.val.v[k].t = same.v[k].t
                    /\ res.val.v[k] = same.v[k]

\* a node whose type is file
IsFileNode(n) ==
    /\ n.t = "dict"
    /\ Get(n, "type").t = "str" /\ Get(n, "type").v = <<"file">>

\* C37: a node whose type is file is treated only as a leaf: extract returns
\* exactly one record for it and does not descend into its objects list, if
\* it has one.
C37_FileNodeIsOnlyLeaf ==
    (res.done /\ IsFileNode(arg.tree)) =>
        /\ res.val.t = "list"
        /\ Len(res.val.v) = 1

\* C38: in dry-run mode a call is only logged: send and run leave the
\* session state exactly as it was before the call, in particular the queue
\* holds the same chunks afterwards as before.  While a dry-run send or run
\* is in progress no step takes a chunk out of the queue (the reader may add
\* one at its end).
C38_DryRunKeepsQueue ==
    [][(op \in {"send_test", "run_test"} /\ pc \in {"purge", "write"}) =>
          /\ Len(queue') >= Len(queue)
          /\ SubSeq(queue', 1, Len(queue)) = queue]_vars

\* C39: process_up reports the child's availability as a boolean value: it
\* sends an empty command and returns true if a chunk arrives within the
\* per-command timeout and false if none does, without raising.
C39_ProcessUpReturnsBoolean ==
    (ret.op = "up" /\ ret.kind # "none") =>
        /\ ret.kind \in {"true", "false"}
        /\ ret.kind = "true" => (ret.ndeq = 1 /\ ret.waited < timeout)
        /\ ret.kind = "false" => (ret.ndeq = 0 /\ ret.waited = timeout)

====
